---- MODULE Spec2Model ----
(***************************************************************************)
(* Download orchestration of streamrip: the ledger (downloads, failures,   *)
(* releases), the Pending -> Media resolvers, the global download queue    *)
(* with its worker pool and retry loop, and the Track rip pipeline.        *)
(*                                                                         *)
(* The program runs on one asyncio event loop, so the code between two     *)
(* awaits is one atomic step.  Every action below is one such segment.     *)
(***************************************************************************)
EXTENDS Integers, Naturals, Sequences, FiniteSets, TLC

(***************************************************************************)
(* Bounds of the model.                                                    *)
(***************************************************************************)
MaxFaults == 1
MaxConnections == 1

(***************************************************************************)
(* Program constants.                                                      *)
(***************************************************************************)
max_retries == 3
BackoffFactor == 2

NoId == "None"
Sentinel == <<0, 0>>

(***************************************************************************)
(* The provider catalogue the runs are played against.  Track ids are      *)
(* plain integers, and two providers reuse the same integers.              *)
(***************************************************************************)
AlbQ == [kind |-> "album", source |-> "qobuz", id |-> 1]
AlbD == [kind |-> "album", source |-> "deezer", id |-> 1]
Sgl1 == [kind |-> "track", source |-> "qobuz", id |-> 1]
Sgl2 == [kind |-> "track", source |-> "qobuz", id |-> 2]
AlbE == [kind |-> "album", source |-> "qobuz", id |-> 2]
Lab == [kind |-> "label", source |-> "qobuz", id |-> 1]
Art == [kind |-> "artist", source |-> "qobuz", id |-> 1]

\* resp["tracks"] of an album: album 2 lists no track.
Tracklist(source, albumId) ==
    IF albumId = AlbE.id THEN <<>>
    ELSE IF source = "qobuz" THEN <<1, 2>> ELSE <<1>>

album_ids(ref) == <<1>>

Scenarios ==
    { [mode |-> "urls", refs |-> <<AlbQ>>],
      [mode |-> "urls", refs |-> <<AlbQ, AlbQ>>],
      [mode |-> "urls", refs |-> <<AlbD, AlbQ>>],
      [mode |-> "urls", refs |-> <<Sgl1, Sgl2>>],
      [mode |-> "urls", refs |-> <<AlbE>>],
      [mode |-> "urls", refs |-> <<Lab>>],
      [mode |-> "pending", refs |-> <<Art>>] }

RefIdx == 1 .. Len(<<AlbQ, AlbQ>>)
JobIds == RefIdx \X (1 .. Len(Tracklist("qobuz", 1)))

VARIABLES
    downloaded,   \* Downloads table: set of track ids
    failed,       \* Failed table: set of <<source, kind, id>>
    releases,     \* DownloadedReleases table: set of [id, kind, source, n]
    cfg,          \* config.session.downloads
    mode,         \* "urls" (stream_process_urls) or "pending" (stream_process_pending)
    urls,         \* the references given to the invocation
    prevOk,       \* the previous invocation ripped every track it was given
    mainPc,       \* position of stream_process_urls / stream_process_pending
    disc,         \* per reference: the url task / process_single_item task
    jobs,         \* per (reference, track): the DownloadTask / track rip
    queue,        \* Main.download_queue
    unfinished,   \* asyncio.Queue unfinished task count (join waits for 0)
    shutdown,     \* Main.shutdown_event
    worker,       \* Main.worker_tasks
    sem,          \* free permits of the global download semaphore
    faults,       \* faults injected by the environment so far
    enriched,     \* per reference: enrich_with_rym calls on its item's AlbumMetadata
    env,          \* what the environment may do: fault budget and possible inputs
    call          \* the last call of a function that is studied on its own

ledger == <<downloaded, failed, releases>>
vars == <<downloaded, failed, releases, cfg, mode, urls, prevOk, mainPc,
          disc, jobs, queue, unfinished, shutdown, worker, sem, faults, enriched,
          env, call>>

\* The variables of the download pipeline, and those that stay as they are
\* while it runs.
pipeline == <<downloaded, failed, releases, cfg, mode, urls, prevOk, mainPc,
              disc, jobs, queue, unfinished, shutdown, worker, sem, faults,
              enriched>>
fixed == <<env, call>>

Workers == 1 .. cfg.max_connections

(***************************************************************************)
(* Ledger (streamrip.db.Database).                                         *)
(***************************************************************************)
db_downloaded(id) == id \in downloaded

set_downloaded(id) == downloaded \cup {id}

set_failed(f, source, kind, id) == f \cup {<<source, kind, id>>}

release_downloaded(id, kind, source) ==
    \E r \in releases : r.id = id /\ r.kind = kind /\ r.source = source

set_release_downloaded(rel, id, kind, source, n) ==
    {r \in rel : ~(r.id = id /\ r.kind = kind /\ r.source = source)}
        \cup {[id |-> id, kind |-> kind, source |-> source, n |-> n]}

(***************************************************************************)
(* Helpers over references and jobs.                                       *)
(***************************************************************************)
NRefs == Len(urls)

IsCollection(ref) == ref.kind \in {"label", "artist"}

\* The album a reference leads to (a collection of the catalogue holds one).
RefAlbumId(ref) == IF ref.kind = "album" THEN ref.id ELSE album_ids(ref)[1]

RefTracks(ref) ==
    IF ref.kind = "track" THEN <<ref.id>> ELSE Tracklist(ref.source, RefAlbumId(ref))

JobTrack(j) == RefTracks(urls[j[1]])[j[2]]
JobSource(j) == urls[j[1]].source

\* file: there is a file at download_path.  xfer and valid are about the
\* current attempt: how its byte transfer ended, and whether its validation passed.
NoJob == [pc |-> "none", where |-> "none", retry_count |-> 0, attempts |-> 0,
          sleep |-> 0, res |-> "-", file |-> FALSE, xfer |-> "-", valid |-> FALSE]
NoDisc == [pc |-> "none", res |-> "-"]

Transferring == {"transfer", "retry", "vtransfer"}
Terminal == {"ok", "null", "error", "dropped"}
InFlight == Cardinality({j \in JobIds : jobs[j].pc \in Transferring})

Fault == faults < env.budget

\* Every track of every reference was ripped and marked downloaded in this run.
AllRipped ==
    \A i \in 1 .. NRefs : \A k \in 1 .. Len(RefTracks(urls[i])) : jobs[<<i, k>>].pc = "ok"

(***************************************************************************)
(* Initial state: a cold ledger, a configuration and the inputs.           *)
(***************************************************************************)
NoCall == [fn |-> "none"]

\* The state after construction, for an environment with the given fault
\* budget and the given possible inputs.
Start(budget, inputs) ==
    /\ downloaded = {}
    /\ failed = {}
    /\ releases = {}
    /\ \E n \in 1 .. MaxConnections, v \in BOOLEAN, r \in BOOLEAN :
          /\ (~v => ~r)
          /\ cfg = [max_connections |-> n, validate_audio |-> v,
                    retry_on_validation_failure |-> r]
    /\ \E s \in inputs : mode = s.mode /\ urls = s.refs
    /\ prevOk = FALSE
    /\ mainPc = "idle"
    /\ disc = [i \in RefIdx |-> NoDisc]
    /\ jobs = [j \in JobIds |-> NoJob]
    /\ queue = <<>>
    /\ unfinished = 0
    /\ shutdown = FALSE
    /\ worker = [w \in 1 .. MaxConnections |-> [pc |-> "off", task |-> Sentinel]]
    /\ sem = 0
    /\ faults = 0
    /\ enriched = [i \in RefIdx |-> 0]
    /\ env = [budget |-> budget, inputs |-> inputs]
    /\ call = NoCall

Init == Start(MaxFaults, Scenarios)

\* Main.__init__ with config.session.rym.enabled: the session has an RYM service.
rym_service == TRUE

\* One more call of AlbumMetadata.enrich_with_rym on the metadata of the item
\* of reference i, counted as 0, 1, or 2 for more than one.
enrich_with_rym(e, i) ==
    IF rym_service THEN [e EXCEPT ![i] = IF @ < 2 THEN @ + 1 ELSE @] ELSE e

(***************************************************************************)
(* Main.stream_process_urls / Main.stream_process_pending.                 *)
(***************************************************************************)
\* A new invocation, with the inputs it is given: start_workers, then one
\* discovery task per reference.
StartRun ==
    /\ mainPc \in {"idle", "done"}
    /\ \E s \in env.inputs : mode' = s.mode /\ urls' = s.refs
    /\ prevOk' = (mainPc = "done" /\ AllRipped /\ mode' = mode /\ urls' = urls)
    /\ mainPc' = "discover"
    /\ disc' = [i \in RefIdx |-> IF i <= Len(urls') THEN [pc |-> "start", res |-> "-"]
                                                   ELSE NoDisc]
    /\ jobs' = [j \in JobIds |-> NoJob]
    /\ queue' = <<>>
    /\ unfinished' = 0
    /\ shutdown' = FALSE
    /\ worker' = [w \in DOMAIN worker |->
                    IF w \in Workers THEN [pc |-> "idle", task |-> Sentinel]
                                     ELSE [pc |-> "off", task |-> Sentinel]]
    /\ sem' = cfg.max_connections
    /\ enriched' = [i \in RefIdx |-> 0]
    /\ UNCHANGED <<downloaded, failed, releases, cfg, faults>>
    /\ UNCHANGED fixed

\* stream_process_pending resolves the pending items one after the other;
\* stream_process_urls gives every url its own task.
CanStart(i) ==
    /\ mainPc = "discover"
    /\ i <= NRefs
    /\ disc[i].pc = "start"
    /\ mode = "pending" => \A h \in 1 .. (i - 1) : disc[h].pc \notin {"start", "meta"}

\* await asyncio.gather(*url_tasks) / the end of the for loop over self.pending
MainDiscovered ==
    /\ mainPc = "discover"
    /\ \A i \in 1 .. NRefs : disc[i].pc \notin {"start", "meta"}
    /\ mainPc' = "wait_items"
    /\ UNCHANGED <<downloaded, failed, releases, cfg, mode, urls, prevOk,
                   disc, jobs, queue, unfinished, shutdown, worker, sem, faults>>
    /\ UNCHANGED <<enriched, fixed>>

\* await asyncio.gather(*download_tasks)
MainItemsDone ==
    /\ mainPc = "wait_items"
    /\ \A i \in 1 .. NRefs : disc[i].pc = "done"
    /\ mainPc' = "join"
    /\ UNCHANGED <<downloaded, failed, releases, cfg, mode, urls, prevOk,
                   disc, jobs, queue, unfinished, shutdown, worker, sem, faults>>
    /\ UNCHANGED <<enriched, fixed>>

\* await self.download_queue.join(), then stop_workers up to its gather
\* stop_workers entered without waiting for download_queue.join().
MainJoined_NoJoin ==
    /\ mainPc = "join"
    /\ mainPc' = "stopping"
    /\ shutdown' = TRUE
    /\ queue' = queue \o [w \in Workers |-> Sentinel]
    /\ unfinished' = unfinished + cfg.max_connections
    /\ UNCHANGED <<downloaded, failed, releases, cfg, mode, urls, prevOk,
                   disc, jobs, worker, sem, faults>>
    /\ UNCHANGED <<enriched, fixed>>

MainJoined ==
    /\ mainPc = "join"
    /\ unfinished = 0
    /\ mainPc' = "stopping"
    /\ shutdown' = TRUE
    /\ queue' = queue \o [w \in Workers |-> Sentinel]
    /\ unfinished' = unfinished + cfg.max_connections
    /\ UNCHANGED <<downloaded, failed, releases, cfg, mode, urls, prevOk,
                   disc, jobs, worker, sem, faults>>
    /\ UNCHANGED <<enriched, fixed>>

\* stop_workers after its gather: worker_tasks.clear(), shutdown_event.clear()
MainStopped ==
    /\ mainPc = "stopping"
    /\ \A w \in Workers : worker[w].pc = "exited"
    /\ mainPc' = "done"
    /\ shutdown' = FALSE
    /\ UNCHANGED <<downloaded, failed, releases, cfg, mode, urls, prevOk,
                   disc, jobs, queue, unfinished, worker, sem, faults>>
    /\ UNCHANGED <<enriched, fixed>>

(***************************************************************************)
(* Main._download_worker: how a task leaves the worker.                    *)
(*   jr : the job as the step left it, Q : the queue, F : the Failed table *)
(***************************************************************************)
\* hasattr(task.track, 'meta'): the task holds a PendingTrack, whose slots are
\* id, album, client, config, folder, db, cover_path.
TaskTrackHasMeta == FALSE

\* What is left of a task or rip that is over: how it ended, the result of its
\* last resolve and, for a dropped task, how often it was processed.
Ended(jr, pc) ==
    [NoJob EXCEPT !.pc = pc, !.res = jr.res,
                  !.attempts = IF pc = "dropped" THEN jr.attempts ELSE 0]

LoopTop == IF shutdown THEN "exited" ELSE "idle"

\* The retry test written as retry_count <= max_retries.
TaskFailed_OneMore(j, jr, w, Q, F) ==
    IF jr.retry_count <= max_retries
    THEN /\ jobs' = [jobs EXCEPT ![j] =
                        [jr EXCEPT !.pc = "sleep", !.where = "worker",
                                   !.retry_count = jr.retry_count + 1,
                                   !.sleep = (jr.retry_count + 1) * BackoffFactor]]
         /\ worker' = [worker EXCEPT ![w] = [pc |-> "busy", task |-> j]]
         /\ queue' = Q
         /\ failed' = F
         /\ UNCHANGED unfinished
    ELSE /\ jobs' = [jobs EXCEPT ![j] = Ended(jr, "dropped")]
         /\ failed' = F
         /\ unfinished' = unfinished - 1
         /\ worker' = [worker EXCEPT ![w] = [pc |-> LoopTop, task |-> Sentinel]]
         /\ queue' = Q

\* The worker without its inner except: the exception ends the worker's loop,
\* the task is lost and its task_done() is never called.
TaskFailed_WorkerStops(j, jr, w, Q, F) ==
    /\ jobs' = [jobs EXCEPT ![j] = Ended(jr, "dropped")]
    /\ failed' = F
    /\ worker' = [worker EXCEPT ![w] = [pc |-> "exited", task |-> Sentinel]]
    /\ queue' = Q
    /\ UNCHANGED unfinished

\* A worker that calls task_done() before the backoff, and not after the put.
TaskFailed_DoneFirst(j, jr, w, Q, F) ==
    /\ unfinished' = unfinished - 1
    /\ IF jr.retry_count < max_retries
       THEN /\ jobs' = [jobs EXCEPT ![j] =
                           [jr EXCEPT !.pc = "sleep", !.where = "worker",
                                      !.retry_count = jr.retry_count + 1,
                                      !.sleep = (jr.retry_count + 1) * BackoffFactor]]
            /\ worker' = [worker EXCEPT ![w] = [pc |-> "busy", task |-> j]]
            /\ queue' = Q
            /\ failed' = F
       ELSE /\ jobs' = [jobs EXCEPT ![j] = Ended(jr, "dropped")]
            /\ failed' = F
            /\ worker' = [worker EXCEPT ![w] = [pc |-> LoopTop, task |-> Sentinel]]
            /\ queue' = Q

\* except Exception: re-queue after a backoff, or drop after max_retries
TaskFailed(j, jr, w, Q, F) ==
    IF jr.retry_count < max_retries
    THEN /\ jobs' = [jobs EXCEPT ![j] =
                        [jr EXCEPT !.pc = "sleep", !.where = "worker",
                                   !.retry_count = jr.retry_count + 1,
                                   !.sleep = (jr.retry_count + 1) * BackoffFactor]]
         /\ worker' = [worker EXCEPT ![w] = [pc |-> "busy", task |-> j]]
         /\ queue' = Q
         /\ failed' = F
         /\ UNCHANGED unfinished
    ELSE /\ jobs' = [jobs EXCEPT ![j] = Ended(jr, "dropped")]
         /\ failed' = IF TaskTrackHasMeta
                      THEN set_failed(F, JobSource(j), "track", JobTrack(j))
                      ELSE F
         /\ unfinished' = unfinished - 1
         /\ worker' = [worker EXCEPT ![w] = [pc |-> LoopTop, task |-> Sentinel]]
         /\ queue' = Q

\* A worker that puts the task back after it was processed without an exception.
TaskDone_PutBack(j, jr, w, Q, F) ==
    /\ jobs' = [jobs EXCEPT ![j] = Ended(jr, "ok")]
    /\ unfinished' = unfinished - 1
    /\ worker' = [worker EXCEPT ![w] = [pc |-> LoopTop, task |-> Sentinel]]
    /\ queue' = Append(Q, j)
    /\ failed' = F

\* the task was processed without an exception: finally task_done()
TaskDone(j, jr, w, Q, F) ==
    /\ jobs' = [jobs EXCEPT ![j] = Ended(jr, "ok")]
    /\ unfinished' = unfinished - 1
    /\ worker' = [worker EXCEPT ![w] = [pc |-> LoopTop, task |-> Sentinel]]
    /\ queue' = Q
    /\ failed' = F

WorkerOf(j) == CHOOSE w \in Workers : worker[w].pc = "busy" /\ worker[w].task = j

\* A track that is ripped outside the queue ends here: the exception, if any,
\* is logged by the caller (Album.download, process_single_item, stream_from_url).
DirectEnd(j, jr, pc, F) ==
    /\ jobs' = [jobs EXCEPT ![j] = Ended(jr, pc)]
    /\ disc' = IF jr.where = "single"
               THEN [disc EXCEPT ![j[1]].pc = "done"]
               ELSE disc
    /\ failed' = F
    /\ UNCHANGED <<queue, unfinished, worker>>

\* resolve() returned None
Null(j, jr, w, Q, F) ==
    IF jr.where \in {"direct", "single"}
    THEN DirectEnd(j, jr, "null", F)
    ELSE \* _process_download_task: raise Exception("Failed to resolve track")
         TaskFailed(j, jr, w, Q, F) /\ UNCHANGED disc

\* resolve() or rip() raised
Raise(j, jr, w, Q, F) ==
    IF jr.where \in {"direct", "single"}
    THEN DirectEnd(j, jr, "error", F)
    ELSE TaskFailed(j, jr, w, Q, F) /\ UNCHANGED disc

\* rip() returned
Done(j, jr, w, Q, F) ==
    IF jr.where \in {"direct", "single"}
    THEN DirectEnd(j, jr, "ok", F)
    ELSE TaskDone(j, jr, w, Q, F) /\ UNCHANGED disc

\* the step ends in another await
Continue(j, jr, F) ==
    /\ jobs' = [jobs EXCEPT ![j] = jr]
    /\ failed' = F
    /\ UNCHANGED <<queue, unfinished, worker, disc>>

(***************************************************************************)
(* PendingTrack.resolve / PendingSingle.resolve.                           *)
(***************************************************************************)
\* The resolvers without their ledger test.
TrackSkip_Never(id) == FALSE

\* if self.db.downloaded(self.id): return None
TrackSkip(id) == db_downloaded(id)

\* Track.download entry: async with global_download_semaphore(...)
\* The semaphore has config.max_connections permits.
EnterDownload(jr) ==
    [jr EXCEPT !.pc = IF sem > 0 THEN "transfer" ELSE "semwait",
               !.xfer = "-", !.valid = FALSE]

SemAfterEnter == IF sem > 0 THEN sem - 1 ELSE sem

\* A worker takes the next item of the queue and starts processing it.  The
\* workers run the same loop, so of the idle ones the first is taken to get it.
Worker_get(w) ==
    /\ w \in Workers
    /\ worker[w].pc = "idle"
    /\ \A v \in Workers : v < w => worker[v].pc # "idle"
    /\ queue # <<>>
    /\ LET j == Head(queue) IN
       IF j = Sentinel
       THEN /\ worker' = [worker EXCEPT ![w].pc = "exited"]
            /\ queue' = Tail(queue)
            /\ UNCHANGED <<jobs, unfinished, failed, disc>>
       ELSE LET jr == [jobs[j] EXCEPT !.where = "worker",
                                      !.attempts = jobs[j].attempts + 1] IN
            IF TrackSkip(JobTrack(j))
            THEN Null(j, [jr EXCEPT !.res = "skip"], w, Tail(queue), failed)
            ELSE /\ jobs' = [jobs EXCEPT ![j] = [jr EXCEPT !.pc = "meta", !.res = "-"]]
                 /\ worker' = [worker EXCEPT ![w] = [pc |-> "busy", task |-> j]]
                 /\ queue' = Tail(queue)
                 /\ UNCHANGED <<unfinished, failed, disc>>
    /\ UNCHANGED <<downloaded, releases, cfg, mode, urls, prevOk, mainPc,
                   shutdown, sem, faults>>
    /\ UNCHANGED <<enriched, fixed>>

\* await asyncio.sleep(task.retry_count * 2) is over: put the task back
Worker_requeue(w) ==
    /\ w \in Workers
    /\ worker[w].pc = "busy"
    /\ LET j == worker[w].task IN
       /\ jobs[j].pc = "sleep"
       /\ jobs' = [jobs EXCEPT ![j] = [@ EXCEPT !.pc = "queued", !.where = "queue"]]
       /\ queue' = Append(queue, j)
    /\ worker' = [worker EXCEPT ![w] = [pc |-> LoopTop, task |-> Sentinel]]
    /\ UNCHANGED <<downloaded, failed, releases, cfg, mode, urls, prevOk, mainPc,
                   disc, unfinished, shutdown, sem, faults>>
    /\ UNCHANGED <<enriched, fixed>>

\* A track of an album that is ripped by Album.download starts its resolve.
Direct_resolve(j) ==
    /\ jobs[j].pc = "start"
    /\ IF TrackSkip(JobTrack(j))
       THEN Null(j, [jobs[j] EXCEPT !.res = "skip"], 0, queue, failed)
       ELSE Continue(j, [jobs[j] EXCEPT !.pc = "meta"], failed)
    /\ UNCHANGED <<downloaded, releases, cfg, mode, urls, prevOk, mainPc,
                   shutdown, sem, faults>>
    /\ UNCHANGED <<enriched, fixed>>

\* PendingSingle.resolve of a track reference
PendingSingle_resolve(i) ==
    /\ CanStart(i)
    /\ urls[i].kind = "track"
    /\ LET j == <<i, 1>>
           jr == [NoJob EXCEPT !.where = "single"] IN
       IF TrackSkip(urls[i].id)
       THEN /\ jobs' = [jobs EXCEPT ![j] = Ended([jr EXCEPT !.res = "skip"], "null")]
            /\ disc' = [disc EXCEPT ![i] = [pc |-> "done", res |-> "skip"]]
       ELSE /\ jobs' = [jobs EXCEPT ![j] = [jr EXCEPT !.pc = "meta"]]
            /\ disc' = [disc EXCEPT ![i].pc = "meta"]
    /\ UNCHANGED <<downloaded, failed, releases, cfg, mode, urls, prevOk, mainPc,
                   queue, unfinished, shutdown, worker, sem, faults>>
    /\ UNCHANGED <<enriched, fixed>>

W(j) == IF jobs[j].where = "worker" THEN WorkerOf(j) ELSE 0

\* resolve() after its db check: get_metadata, then get_downloadable.  Nothing the
\* other tasks can see is read or written between the two awaits, so they are
\* one step, which ends when the second returns or when either raises.
Track_fetch(j) ==
    /\ jobs[j].pc = "meta"
    /\ \/ \* both return
          /\ UNCHANGED faults
          /\ IF jobs[j].where = "single"
             THEN \* the Track goes back to the caller, which creates the item task
                  /\ jobs' = [jobs EXCEPT ![j] = [@ EXCEPT !.pc = "resolved", !.res = "track"]]
                  /\ disc' = [disc EXCEPT ![j[1]] = [pc |-> "item", res |-> "track"]]
                  /\ UNCHANGED <<failed, queue, unfinished, worker, sem, enriched>>
             ELSE \* a worker enriches track_media.meta.album, the album's
                  \* AlbumMetadata; then track_media.rip(): preprocess, download
                  /\ Continue(j, EnterDownload([jobs[j] EXCEPT !.res = "track"]), failed)
                  /\ sem' = SemAfterEnter
                  /\ enriched' = IF jobs[j].where = "worker"
                                 THEN enrich_with_rym(enriched, j[1])
                                 ELSE enriched
       \/ \* get_metadata raises NonStreamableError: logged, return None
          /\ Fault
          /\ faults' = faults + 1
          /\ UNCHANGED <<sem, enriched>>
          /\ Null(j, [jobs[j] EXCEPT !.res = "null"], W(j), queue, failed)
       \/ \* not meta.info.streamable: set_failed, return None
          /\ Fault
          /\ faults' = faults + 1
          /\ UNCHANGED <<sem, enriched>>
          /\ Null(j, [jobs[j] EXCEPT !.res = "null"], W(j), queue,
                  set_failed(failed, JobSource(j), "track", JobTrack(j)))
       \/ \* get_downloadable raises NonStreamableError
          /\ Fault
          /\ faults' = faults + 1
          /\ UNCHANGED <<sem, enriched>>
          /\ IF jobs[j].where = "single"
             THEN \* PendingSingle.resolve does not catch it
                  Raise(j, [jobs[j] EXCEPT !.res = "raise"], 0, queue, failed)
             ELSE \* PendingTrack.resolve: set_failed, return None
                  Null(j, [jobs[j] EXCEPT !.res = "null"], W(j), queue,
                       set_failed(failed, JobSource(j), "track", JobTrack(j)))
       \/ \* any other exception leaves resolve
          /\ Fault
          /\ faults' = faults + 1
          /\ UNCHANGED <<sem, enriched>>
          /\ Raise(j, [jobs[j] EXCEPT !.res = "raise"], W(j), queue, failed)
    /\ UNCHANGED <<downloaded, releases, cfg, mode, urls, prevOk, mainPc, shutdown>>
    /\ UNCHANGED fixed

\* process_single_item of a Track: enrichment of meta.album, then media_item.rip()
Single_rip(i) ==
    /\ i <= NRefs
    /\ urls[i].kind = "track"
    /\ disc[i].pc = "item"
    /\ jobs' = [jobs EXCEPT ![<<i, 1>>] = EnterDownload(@)]
    /\ sem' = SemAfterEnter
    /\ disc' = [disc EXCEPT ![i].pc = "run"]
    /\ enriched' = enrich_with_rym(enriched, i)
    /\ UNCHANGED <<downloaded, failed, releases, cfg, mode, urls, prevOk, mainPc,
                   queue, unfinished, shutdown, worker, faults>>
    /\ UNCHANGED fixed

\* a permit of the global download semaphore becomes free
Track_acquire(j) ==
    /\ jobs[j].pc = "semwait"
    /\ sem > 0
    /\ sem' = sem - 1
    /\ jobs' = [jobs EXCEPT ![j].pc = "transfer"]
    /\ UNCHANGED <<downloaded, failed, releases, cfg, mode, urls, prevOk, mainPc,
                   disc, queue, unfinished, shutdown, worker, faults>>
    /\ UNCHANGED <<enriched, fixed>>

(***************************************************************************)
(* Track.download and Track.postprocess.                                   *)
(***************************************************************************)
\* Track.postprocess without the validation.
PostEntry_NoValidation(jr) == [jr EXCEPT !.pc = "tag"]

\* Track.postprocess up to its first await
PostEntry(jr) ==
    IF cfg.validate_audio /\ jr.file
    THEN [jr EXCEPT !.pc = "validate"]
    ELSE [jr EXCEPT !.pc = "tag"]

\* _validate_audio_file: the file is not there
PostFailed(j, jr, F) ==
    IF cfg.validate_audio /\ ~jr.file
    THEN set_failed(F, JobSource(j), "track", JobTrack(j))
    ELSE F

\* the first downloadable.download(...) of Track.download ended
Track_transfer(j) ==
    /\ jobs[j].pc = "transfer"
    /\ \/ /\ UNCHANGED faults
          /\ sem' = sem + 1
          /\ Continue(j, PostEntry([jobs[j] EXCEPT !.file = TRUE, !.xfer = "ok"]), failed)
       \/ /\ Fault
          /\ faults' = faults + 1
          /\ UNCHANGED sem
          /\ Continue(j, [jobs[j] EXCEPT !.pc = "retry"], failed)
    /\ UNCHANGED <<downloaded, releases, cfg, mode, urls, prevOk, mainPc, shutdown>>
    /\ UNCHANGED <<enriched, fixed>>

\* the second downloadable.download(...) of Track.download ended
Track_retry(j) ==
    /\ jobs[j].pc = "retry"
    /\ sem' = sem + 1
    /\ \/ /\ UNCHANGED faults
          /\ Continue(j, PostEntry([jobs[j] EXCEPT !.file = TRUE, !.xfer = "ok"]), failed)
       \/ /\ Fault
          /\ faults' = faults + 1
          /\ Continue(j, PostEntry([jobs[j] EXCEPT !.xfer = "failed"]),
                      PostFailed(j, jobs[j],
                                 set_failed(failed, JobSource(j), "track", JobTrack(j))))
    /\ UNCHANGED <<downloaded, releases, cfg, mode, urls, prevOk, mainPc, shutdown>>
    /\ UNCHANGED <<enriched, fixed>>

\* validate_audio_file(...) in _validate_audio_file returned
Track_validate(j) ==
    /\ jobs[j].pc = "validate"
    /\ \/ /\ UNCHANGED faults
          /\ Continue(j, [jobs[j] EXCEPT !.pc = "tag", !.valid = TRUE], failed)
       \/ /\ Fault
          /\ faults' = faults + 1
          /\ LET F == set_failed(failed, JobSource(j), "track", JobTrack(j)) IN
             IF cfg.retry_on_validation_failure
             THEN Continue(j, [jobs[j] EXCEPT !.pc = "vtransfer"], F)
             ELSE Raise(j, jobs[j], W(j), queue, F)
    /\ UNCHANGED <<downloaded, releases, cfg, mode, urls, prevOk, mainPc,
                   shutdown, sem>>
    /\ UNCHANGED <<enriched, fixed>>

\* the downloadable.download(...) of _retry_download ended
Track_retry_download(j) ==
    /\ jobs[j].pc = "vtransfer"
    /\ \/ /\ UNCHANGED faults
          /\ Continue(j, [jobs[j] EXCEPT !.pc = "vvalidate", !.file = TRUE,
                                         !.xfer = "ok"], failed)
       \/ /\ Fault
          /\ faults' = faults + 1
          /\ Raise(j, jobs[j], W(j), queue, failed)
    /\ UNCHANGED <<downloaded, releases, cfg, mode, urls, prevOk, mainPc,
                   shutdown, sem>>
    /\ UNCHANGED <<enriched, fixed>>

\* the validate_audio_file(...) of _retry_download returned
Track_revalidate(j) ==
    /\ jobs[j].pc = "vvalidate"
    /\ \/ /\ UNCHANGED faults
          /\ Continue(j, [jobs[j] EXCEPT !.pc = "tag", !.valid = TRUE], failed)
       \/ /\ Fault
          /\ faults' = faults + 1
          /\ Raise(j, jobs[j], W(j), queue, failed)
    /\ UNCHANGED <<downloaded, releases, cfg, mode, urls, prevOk, mainPc,
                   shutdown, sem>>
    /\ UNCHANGED <<enriched, fixed>>

\* The rest of Track.postprocess: tag_file(...), then _convert() when conversion
\* is enabled, then set_downloaded as the last statement; an exception of
\* either leaves postprocess before the write.
Track_tag(j) ==
    /\ jobs[j].pc = "tag"
    /\ \/ /\ jobs[j].file
          /\ UNCHANGED faults
          /\ downloaded' = set_downloaded(JobTrack(j))
          /\ Done(j, jobs[j], W(j), queue, failed)
       \/ /\ jobs[j].file
          /\ Fault
          /\ faults' = faults + 1
          /\ UNCHANGED downloaded
          /\ Raise(j, jobs[j], W(j), queue, failed)
       \/ \* no file at download_path: the tagger cannot open it
          /\ ~jobs[j].file
          /\ UNCHANGED <<faults, downloaded>>
          /\ Raise(j, jobs[j], W(j), queue, failed)
    /\ UNCHANGED <<releases, cfg, mode, urls, prevOk, mainPc, shutdown, sem>>
    /\ UNCHANGED <<enriched, fixed>>

(***************************************************************************)
(* PendingAlbum.resolve, Album, and Main._queue_album_tracks.              *)
(***************************************************************************)
\* The ledger test of PendingAlbum.resolve keyed on the id and the kind alone.
AlbumSkip_AnySource(source, id) ==
    \E r \in releases : r.id = id /\ r.kind = "album"

\* if self.db.release_downloaded(self.id, "album", self.client.source): return None
AlbumSkip(source, id) == release_downloaded(id, "album", source)

\* The completeness test with any() in place of all().
AllTracksDownloaded_Any(tracklist) ==
    /\ \E k \in 1 .. Len(tracklist) : db_downloaded(tracklist[k])
    /\ Len(tracklist) > 0

\* all(self.db.downloaded(track_id) for track_id in tracklist) and len(tracklist) > 0
AllTracksDownloaded(tracklist) ==
    /\ \A k \in 1 .. Len(tracklist) : db_downloaded(tracklist[k])
    /\ Len(tracklist) > 0

\* The resolve without the write of line 130.
ResolveRelease_NoWrite(source, id) == releases

\* PendingAlbum.resolve after get_metadata returned a streamable album:
\* the release row it leaves behind
ResolveRelease(source, id) ==
    IF AllTracksDownloaded(Tracklist(source, id))
    THEN set_release_downloaded(releases, id, "album", source, Len(Tracklist(source, id)))
    ELSE releases

\* album_id = getattr(self.meta, 'id', None): AlbumMetadata has no field id
\* (the id is in AlbumInfo, self.meta.info.id).
AlbumMetaId(id) == NoId

\* Album.postprocess
Album_postprocess(source, id) ==
    IF /\ AllTracksDownloaded(Tracklist(source, id))
       /\ AlbumMetaId(id) # NoId
    THEN set_release_downloaded(releases, AlbumMetaId(id), "album", source,
                                Len(Tracklist(source, id)))
    ELSE releases

PendingAlbum_resolve(i) ==
    /\ CanStart(i)
    /\ urls[i].kind = "album"
    /\ disc' = [disc EXCEPT ![i] =
                  IF AlbumSkip(urls[i].source, urls[i].id)
                  THEN [pc |-> "done", res |-> "skip"]
                  ELSE [pc |-> "meta", res |-> "-"]]
    /\ UNCHANGED <<downloaded, failed, releases, cfg, mode, urls, prevOk, mainPc,
                   jobs, queue, unfinished, shutdown, worker, sem, faults>>
    /\ UNCHANGED <<enriched, fixed>>

\* await self.client.get_metadata(self.id, "album") returned or raised
PendingAlbum_meta(i) ==
    /\ i <= NRefs
    /\ urls[i].kind = "album"
    /\ disc[i].pc = "meta"
    /\ \/ /\ UNCHANGED faults
          /\ releases' = ResolveRelease(urls[i].source, urls[i].id)
          /\ disc' = [disc EXCEPT ![i] =
                        IF AllTracksDownloaded(Tracklist(urls[i].source, urls[i].id))
                        THEN [pc |-> "done", res |-> "complete"]
                        ELSE [pc |-> "item", res |-> "album"]]
       \/ \* NonStreamableError, or not meta.info.streamable: return None
          /\ Fault
          /\ faults' = faults + 1
          /\ disc' = [disc EXCEPT ![i] = [pc |-> "done", res |-> "null"]]
          /\ UNCHANGED releases
    /\ UNCHANGED <<downloaded, failed, cfg, mode, urls, prevOk, mainPc,
                   jobs, queue, unfinished, shutdown, worker, sem>>
    /\ UNCHANGED <<enriched, fixed>>

\* process_single_item of an Album: enrichment of its meta, then
\* _queue_album_tracks puts one DownloadTask per track; nothing calls
\* album.postprocess() afterwards.
queue_album_tracks(i) ==
    /\ i <= NRefs
    /\ urls[i].kind = "album"
    /\ disc[i].pc = "item"
    /\ LET n == Len(RefTracks(urls[i])) IN
       /\ jobs' = [j \in JobIds |->
                     IF j[1] = i /\ j[2] <= n
                     THEN [NoJob EXCEPT !.pc = "queued", !.where = "queue"]
                     ELSE jobs[j]]
       /\ queue' = queue \o [k \in 1 .. n |-> <<i, k>>]
       /\ unfinished' = unfinished + n
    /\ disc' = [disc EXCEPT ![i].pc = "done"]
    /\ enriched' = enrich_with_rym(enriched, i)
    /\ UNCHANGED <<downloaded, failed, releases, cfg, mode, urls, prevOk, mainPc,
                   shutdown, worker, sem, faults>>
    /\ UNCHANGED fixed

(***************************************************************************)
(* PendingArtist.resolve / PendingLabel.resolve, Artist / Label rip.       *)
(***************************************************************************)
\* The resolvers start with get_metadata; they do not look at the ledger first.
CollectionSkip(ref) == FALSE

\* filter_and_log_albums / all_albums_downloaded
AllAlbumsDownloaded(ref) ==
    /\ \A k \in 1 .. Len(album_ids(ref)) : AlbumSkip(ref.source, album_ids(ref)[k])
    /\ Len(album_ids(ref)) > 0

\* Artist.postprocess / Label.postprocess
mark_collection_complete(rel, ref) ==
    IF Len(album_ids(ref)) > 0
    THEN set_release_downloaded(rel, ref.id, ref.kind, ref.source, Len(album_ids(ref)))
    ELSE rel

Collection_resolve(i) ==
    /\ CanStart(i)
    /\ IsCollection(urls[i])
    /\ disc' = [disc EXCEPT ![i] =
                  IF CollectionSkip(urls[i])
                  THEN [pc |-> "done", res |-> "skip"]
                  ELSE [pc |-> "meta", res |-> "-"]]
    /\ UNCHANGED <<downloaded, failed, releases, cfg, mode, urls, prevOk, mainPc,
                   jobs, queue, unfinished, shutdown, worker, sem, faults>>
    /\ UNCHANGED <<enriched, fixed>>

\* get_metadata(self.id, "artist" / "label") returned or raised
Collection_meta(i) ==
    /\ i <= NRefs
    /\ IsCollection(urls[i])
    /\ disc[i].pc = "meta"
    /\ \/ /\ UNCHANGED faults
          /\ disc' = [disc EXCEPT ![i] =
                        IF AllAlbumsDownloaded(urls[i])
                        THEN [pc |-> "done", res |-> "null"]
                        ELSE [pc |-> "item", res |-> "collection"]]
       \/ /\ Fault
          /\ faults' = faults + 1
          /\ disc' = [disc EXCEPT ![i] = [pc |-> "done", res |-> "null"]]
    /\ UNCHANGED <<downloaded, failed, releases, cfg, mode, urls, prevOk, mainPc,
                   jobs, queue, unfinished, shutdown, worker, sem>>
    /\ UNCHANGED <<enriched, fixed>>

\* process_single_item of an Artist / Label: rip(), whose download resolves the album
Collection_rip(i) ==
    /\ i <= NRefs
    /\ IsCollection(urls[i])
    /\ disc[i].pc = "item"
    /\ IF AlbumSkip(urls[i].source, RefAlbumId(urls[i]))
       THEN /\ releases' = mark_collection_complete(releases, urls[i])
            /\ disc' = [disc EXCEPT ![i].pc = "done"]
       ELSE /\ disc' = [disc EXCEPT ![i].pc = "ameta"]
            /\ UNCHANGED releases
    /\ UNCHANGED <<downloaded, failed, cfg, mode, urls, prevOk, mainPc,
                   jobs, queue, unfinished, shutdown, worker, sem, faults>>
    /\ UNCHANGED <<enriched, fixed>>

\* the album's get_metadata returned or raised; an Album is ripped in place:
\* Album.download gathers one resolve-and-rip per track
Collection_album_meta(i) ==
    /\ i <= NRefs
    /\ IsCollection(urls[i])
    /\ disc[i].pc = "ameta"
    /\ LET src == urls[i].source
           aid == RefAlbumId(urls[i])
           n == Len(Tracklist(src, aid)) IN
       \/ /\ UNCHANGED faults
          /\ IF AllTracksDownloaded(Tracklist(src, aid))
             THEN /\ releases' = mark_collection_complete(ResolveRelease(src, aid), urls[i])
                  /\ disc' = [disc EXCEPT ![i].pc = "done"]
                  /\ UNCHANGED jobs
             ELSE /\ jobs' = [j \in JobIds |->
                                IF j[1] = i /\ j[2] <= n
                                THEN [NoJob EXCEPT !.pc = "start", !.where = "direct"]
                                ELSE jobs[j]]
                  /\ disc' = [disc EXCEPT ![i].pc = "tracks"]
                  /\ UNCHANGED releases
       \/ /\ Fault
          /\ faults' = faults + 1
          /\ releases' = mark_collection_complete(releases, urls[i])
          /\ disc' = [disc EXCEPT ![i].pc = "done"]
          /\ UNCHANGED jobs
    /\ UNCHANGED <<downloaded, failed, cfg, mode, urls, prevOk, mainPc,
                   queue, unfinished, shutdown, worker, sem>>
    /\ UNCHANGED <<enriched, fixed>>

\* the gather of Album.download is over: Album.postprocess, then the
\* collection's postprocess
Collection_finish(i) ==
    /\ i <= NRefs
    /\ IsCollection(urls[i])
    /\ disc[i].pc = "tracks"
    /\ \A j \in JobIds : j[1] = i => jobs[j].pc \in Terminal \cup {"none"}
    /\ releases' = mark_collection_complete(
                       Album_postprocess(urls[i].source, RefAlbumId(urls[i])), urls[i])
    /\ disc' = [disc EXCEPT ![i].pc = "done"]
    /\ UNCHANGED <<downloaded, failed, cfg, mode, urls, prevOk, mainPc,
                   jobs, queue, unfinished, shutdown, worker, sem, faults>>
    /\ UNCHANGED <<enriched, fixed>>

(***************************************************************************)
(* The specification.                                                      *)
(***************************************************************************)
(***************************************************************************)
(* stream_from_url: client = await self.get_logged_in_client(parsed.source) *)
(* raises (no client of that name, MissingCredentialsError or              *)
(* AuthenticationError of client.login()).  The call stands inside the try  *)
(* of stream_from_url, whose except Exception logs the error and ends the   *)
(* url's task.  When the login returns, the task goes on with the resolve   *)
(* of its reference.                                                        *)
(***************************************************************************)
Login_raises(i) ==
    /\ CanStart(i)
    /\ mode = "urls"
    /\ Fault
    /\ faults' = faults + 1
    /\ disc' = [disc EXCEPT ![i] = [pc |-> "done", res |-> "login"]]
    /\ UNCHANGED <<downloaded, failed, releases, cfg, mode, urls, prevOk, mainPc,
                   jobs, queue, unfinished, shutdown, worker, sem>>
    /\ UNCHANGED <<enriched, fixed>>

Next ==
    \/ StartRun
    \/ \E i \in RefIdx : Login_raises(i)
    \/ MainDiscovered
    \/ MainItemsDone
    \/ MainJoined
    \/ MainStopped
    \/ \E w \in 1 .. MaxConnections : Worker_get(w)
    \/ \E w \in 1 .. MaxConnections : Worker_requeue(w)
    \/ \E i \in RefIdx : PendingSingle_resolve(i)
    \/ \E i \in RefIdx : Single_rip(i)
    \/ \E i \in RefIdx : PendingAlbum_resolve(i)
    \/ \E i \in RefIdx : PendingAlbum_meta(i)
    \/ \E i \in RefIdx : queue_album_tracks(i)
    \/ \E i \in RefIdx : Collection_resolve(i)
    \/ \E i \in RefIdx : Collection_meta(i)
    \/ \E i \in RefIdx : Collection_rip(i)
    \/ \E i \in RefIdx : Collection_album_meta(i)
    \/ \E i \in RefIdx : Collection_finish(i)
    \/ \E j \in JobIds : Direct_resolve(j)
    \/ \E j \in JobIds : Track_fetch(j)
    \/ \E j \in JobIds : Track_acquire(j)
    \/ \E j \in JobIds : Track_transfer(j)
    \/ \E j \in JobIds : Track_retry(j)
    \/ \E j \in JobIds : Track_validate(j)
    \/ \E j \in JobIds : Track_retry_download(j)
    \/ \E j \in JobIds : Track_revalidate(j)
    \/ \E j \in JobIds : Track_tag(j)

Spec == Init /\ [][Next]_vars

(***************************************************************************)
(* The rip of one album of one track, with a fault budget that lets the    *)
(* same task fail in its tagging, in its transfer and in the inline retry. *)
(* The actions are those of Next that an album reference can take.         *)
(***************************************************************************)
RipInputs == {[mode |-> "urls", refs |-> <<AlbD>>]}

InitRip == Start(MaxFaults + 2, RipInputs)

NextRip ==
    \/ StartRun
    \/ MainDiscovered
    \/ MainItemsDone
    \/ MainJoined
    \/ MainStopped
    \/ \E w \in 1 .. MaxConnections : Worker_get(w)
    \/ \E w \in 1 .. MaxConnections : Worker_requeue(w)
    \/ \E i \in RefIdx : PendingAlbum_resolve(i)
    \/ \E i \in RefIdx : PendingAlbum_meta(i)
    \/ \E i \in RefIdx : queue_album_tracks(i)
    \/ \E j \in JobIds : Track_fetch(j)
    \/ \E j \in JobIds : Track_transfer(j)
    \/ \E j \in JobIds : Track_retry(j)
    \/ \E j \in JobIds : Track_validate(j)
    \/ \E j \in JobIds : Track_retry_download(j)
    \/ \E j \in JobIds : Track_revalidate(j)
    \/ \E j \in JobIds : Track_tag(j)

SpecRip == InitRip /\ [][NextRip]_vars

(***************************************************************************)
(* The pipeline with more than one worker: max_connections = PoolSize, and *)
(* an invocation that is given the same album through two URLs.            *)
(***************************************************************************)
PoolSize == MaxConnections + 1

PoolInputs == {[mode |-> "urls", refs |-> <<AlbQ, AlbQ>>]}

InitPool ==
    /\ downloaded = {}
    /\ failed = {}
    /\ releases = {}
    /\ \E v \in BOOLEAN, r \in BOOLEAN :
          /\ (~v => ~r)
          /\ cfg = [max_connections |-> PoolSize, validate_audio |-> v,
                    retry_on_validation_failure |-> r]
    /\ \E s \in PoolInputs : mode = s.mode /\ urls = s.refs
    /\ prevOk = FALSE
    /\ mainPc = "idle"
    /\ disc = [i \in RefIdx |-> NoDisc]
    /\ jobs = [j \in JobIds |-> NoJob]
    /\ queue = <<>>
    /\ unfinished = 0
    /\ shutdown = FALSE
    /\ worker = [w \in 1 .. PoolSize |-> [pc |-> "off", task |-> Sentinel]]
    /\ sem = 0
    /\ faults = 0
    /\ enriched = [i \in RefIdx |-> 0]
    /\ env = [budget |-> MaxFaults, inputs |-> PoolInputs]
    /\ call = NoCall

NextPool ==
    \/ StartRun
    \/ MainDiscovered
    \/ MainItemsDone
    \/ MainJoined
    \/ MainStopped
    \/ \E w \in 1 .. PoolSize : Worker_get(w)
    \/ \E w \in 1 .. PoolSize : Worker_requeue(w)
    \/ \E i \in RefIdx : PendingAlbum_resolve(i)
    \/ \E i \in RefIdx : PendingAlbum_meta(i)
    \/ \E i \in RefIdx : queue_album_tracks(i)
    \/ \E j \in JobIds : Track_fetch(j)
    \/ \E j \in JobIds : Track_transfer(j)
    \/ \E j \in JobIds : Track_retry(j)
    \/ \E j \in JobIds : Track_validate(j)
    \/ \E j \in JobIds : Track_retry_download(j)
    \/ \E j \in JobIds : Track_revalidate(j)
    \/ \E j \in JobIds : Track_tag(j)

SpecPool == InitPool /\ [][NextPool]_vars

(***************************************************************************)
(* Several invocations on one Main object: download_queue is created in    *)
(* Main.__init__ and every invocation uses it as the one before left it.   *)
(***************************************************************************)
\* the first invocation on a new Main
StartFirst == mainPc = "idle" /\ StartRun

\* a later invocation on the same Main: start_workers, then discovery
StartAgain ==
    /\ mainPc = "done"
    /\ \E s \in env.inputs : mode' = s.mode /\ urls' = s.refs
    /\ prevOk' = (AllRipped /\ mode' = mode /\ urls' = urls)
    /\ mainPc' = "discover"
    /\ disc' = [i \in RefIdx |-> IF i <= Len(urls') THEN [pc |-> "start", res |-> "-"]
                                                   ELSE NoDisc]
    /\ jobs' = [j \in JobIds |-> NoJob]
    /\ worker' = [w \in DOMAIN worker |->
                    IF w \in Workers THEN [pc |-> "idle", task |-> Sentinel]
                                     ELSE [pc |-> "off", task |-> Sentinel]]
    /\ sem' = cfg.max_connections
    /\ enriched' = [i \in RefIdx |-> 0]
    /\ UNCHANGED <<queue, unfinished, shutdown>>
    /\ UNCHANGED <<downloaded, failed, releases, cfg, faults>>
    /\ UNCHANGED fixed

NextSameMain ==
    \/ StartFirst
    \/ StartAgain
    \/ MainDiscovered
    \/ MainItemsDone
    \/ MainJoined
    \/ MainStopped
    \/ \E w \in 1 .. MaxConnections : Worker_get(w)
    \/ \E w \in 1 .. MaxConnections : Worker_requeue(w)
    \/ \E i \in RefIdx : PendingAlbum_resolve(i)
    \/ \E i \in RefIdx : PendingAlbum_meta(i)
    \/ \E i \in RefIdx : queue_album_tracks(i)
    \/ \E j \in JobIds : Track_fetch(j)
    \/ \E j \in JobIds : Track_transfer(j)
    \/ \E j \in JobIds : Track_retry(j)
    \/ \E j \in JobIds : Track_validate(j)
    \/ \E j \in JobIds : Track_retry_download(j)
    \/ \E j \in JobIds : Track_revalidate(j)
    \/ \E j \in JobIds : Track_tag(j)

\* as SpecLive: a coroutine that can take its next step is eventually run
SpecSameMain == InitRip /\ [][NextSameMain]_vars /\ WF_vars(NextSameMain)

(***************************************************************************)
(* The pipeline under the scheduling of the event loop: a coroutine that   *)
(* can take its next step is eventually run, so some enabled step is       *)
(* always taken.                                                           *)
(***************************************************************************)
SpecLive == Init /\ [][Next]_vars /\ WF_vars(Next)

TypeOK ==
    /\ downloaded \subseteq {1, 2}
    /\ sem \in 0 .. cfg.max_connections
    /\ unfinished \in 0 .. 8
    /\ faults \in 0 .. env.budget
    /\ \A i \in RefIdx : enriched[i] \in 0 .. 2

(***************************************************************************)
(* Functions studied on their own.  Each action below is one call, with    *)
(* its arguments drawn from a small set; call records the arguments and    *)
(* what the call returned and wrote.  The pipeline stands still meanwhile, *)
(* and a behaviour holds one such call.                                    *)
(***************************************************************************)
Qualities == 0 .. 3

\* The quality test against the source's lower_quality_if_not_available, off by
\* the fallback flag.
QualityRefused_NoFallback(q_max, q_req, fallback) == q_max < q_req

\* if meta.info.quality < requested_quality and not lower_quality_fallback
QualityRefused(q_max, q_req, fallback) == q_max < q_req /\ ~fallback

\* quality = min(requested_quality, meta.info.quality)
SelectedQuality(q_req, q_max) == IF q_req <= q_max THEN q_req ELSE q_max

\* PendingTrack.resolve / PendingSingle.resolve from the quality test to the
\* call of get_downloadable, for a streamable track 1 of qobuz.
Resolve_quality ==
    /\ call = NoCall
    /\ \E kind \in {"PendingTrack", "PendingSingle"}, q_req \in Qualities,
          q_max \in Qualities, fallback \in BOOLEAN :
          call' = IF QualityRefused(q_max, q_req, fallback)
                  THEN [fn |-> kind, q_req |-> q_req, q_max |-> q_max,
                        fallback |-> fallback, res |-> "null",
                        failed |-> set_failed({}, "qobuz", "track", 1),
                        get_downloadable |-> <<>>]
                  ELSE [fn |-> kind, q_req |-> q_req, q_max |-> q_max,
                        fallback |-> fallback, res |-> "track",
                        failed |-> {},
                        get_downloadable |-> <<SelectedQuality(q_req, q_max)>>]
    /\ UNCHANGED <<pipeline, env>>

\* Liked tracks as get_user_favorites returns them: two of album 1, one of album 2.
LikedItems ==
    { [id |-> 1, album |-> 1], [id |-> 2, album |-> 1], [id |-> 3, album |-> 2] }

ItemLists ==
    {<<>>} \cup { <<a>> : a \in LikedItems }
           \cup { <<a, b>> : a \in LikedItems, b \in LikedItems }
           \cup { <<a, b, c>> : a \in LikedItems, b \in LikedItems, c \in LikedItems }

\* if self.media_type == "tracks": PendingSingle ... elif "albums": PendingAlbum ...
PendingKind(media_type) ==
    CASE media_type = "tracks" -> "PendingSingle"
      [] media_type = "albums" -> "PendingAlbum"
      [] media_type = "artists" -> "PendingArtist"
      [] media_type = "playlists" -> "PendingPlaylist"

\* UserFavorites.download: the pending items it builds, one per item; the
\* configuration's download_full_album_for_liked_tracks is not read.
pending_items(media_type, items, full_album) ==
    [k \in 1 .. Len(items) |-> [kind |-> PendingKind(media_type), id |-> items[k].id]]

UserFavorites_download ==
    /\ call = NoCall
    /\ \E media_type \in {"tracks", "albums", "artists", "playlists"},
          items \in ItemLists, full_album \in BOOLEAN :
          call' = [fn |-> "UserFavorites.download", media_type |-> media_type,
                   items |-> items, full_album |-> full_album,
                   pending |-> pending_items(media_type, items, full_album)]
    /\ UNCHANGED <<pipeline, env>>

(***************************************************************************)
(* Artist._filter_repeats.  A title is a sequence of characters.           *)
(***************************************************************************)
\* _essence_re.match(title).group(1): the longest prefix without an opening
\* bracket or parenthesis; the match fails when that prefix is empty.
RECURSIVE group1(_)
group1(t) ==
    IF t = <<>> \/ Head(t) \in {"(", "["} THEN <<>>
    ELSE <<Head(t)>> \o group1(Tail(t))

essence_matches(t) == group1(t) # <<>>

\* str.strip
RECURSIVE lstrip(_)
lstrip(t) == IF t # <<>> /\ Head(t) = " " THEN lstrip(Tail(t)) ELSE t

RECURSIVE rstrip(_)
rstrip(t) ==
    IF t # <<>> /\ t[Len(t)] = " " THEN rstrip(SubSeq(t, 1, Len(t) - 1)) ELSE t

strip(t) == rstrip(lstrip(t))

\* str.lower
lower(t) ==
    [k \in DOMAIN t |-> CASE t[k] = "A" -> "a" [] t[k] = "B" -> "b" [] OTHER -> t[k]]

\* title = match.group(1).strip().lower()
essence(t) == lower(strip(group1(t)))

\* x or 0, for a value that is None (<<>>) or a number (<<x>>)
OrZero(x) == IF x = <<>> THEN 0 ELSE x[1]

\* the three sort keys; True sorts above False
explicit_key(a) == IF a.explicit THEN 1 ELSE 0
sampling_rate_key(a) == OrZero(a.sampling_rate)
bit_depth_key(a) == OrZero(a.bit_depth)

\* the key function of each of the three sorts
sort_key(key, a) ==
    CASE key = "explicit" -> explicit_key(a)
      [] key = "sampling_rate" -> sampling_rate_key(a)
      [] key = "bit_depth" -> bit_depth_key(a)

\* sorted(group, key=key, reverse=True): a stable sort, largest key first
sorted_reverse(group, key) ==
    LET insert(s, a) ==
            LET n == Cardinality({k \in DOMAIN s :
                                     sort_key(key, s[k]) >= sort_key(key, a)}) IN
            SubSeq(s, 1, n) \o <<a>> \o SubSeq(s, n + 1, Len(s))
        srt[k \in 0 .. Len(group)] ==
            IF k = 0 THEN <<>> ELSE insert(srt[k - 1], group[k])
    IN srt[Len(group)]

\* the keys of the groups dict, in insertion order
RECURSIVE group_titles(_, _)
group_titles(albums, seen) ==
    IF albums = <<>> THEN <<>>
    ELSE LET t == essence(Head(albums).album) IN
         IF t \in seen THEN group_titles(Tail(albums), seen)
         ELSE <<t>> \o group_titles(Tail(albums), seen \cup {t})

\* groups[title]
group_of(albums, title) == SelectSeq(albums, LAMBDA a : essence(a.album) = title)

\* the three sorts of a group, one after the other
sorted_group(group) ==
    sorted_reverse(sorted_reverse(sorted_reverse(group, "explicit"),
                                  "sampling_rate"),
                   "bit_depth")

\* _filter_repeats: the assert fails on a title without an essence; otherwise
\* group[0] of every sorted group, in the order of the groups
filter_repeats(albums) ==
    IF \E k \in DOMAIN albums : ~essence_matches(albums[k].album)
    THEN [raises |-> TRUE, albums |-> <<>>]
    ELSE LET titles == group_titles(albums, {}) IN
         [raises |-> FALSE,
          albums |-> [k \in DOMAIN titles |->
                        sorted_group(group_of(albums, titles[k]))[1]]]

\* Albums of an artist: meta.album, meta.info.explicit / sampling_rate / bit_depth.
ArtistAlbums ==
    { [id |-> 1, album |-> <<"a">>, explicit |-> TRUE,
       sampling_rate |-> <<44>>, bit_depth |-> <<16>>],
      [id |-> 2, album |-> <<"a", " ", "(", "x", ")">>, explicit |-> FALSE,
       sampling_rate |-> <<96>>, bit_depth |-> <<24>>],
      [id |-> 3, album |-> <<"A">>, explicit |-> FALSE,
       sampling_rate |-> <<96>>, bit_depth |-> <<16>>],
      [id |-> 4, album |-> <<"a", " ", "[", "y", "]">>, explicit |-> TRUE,
       sampling_rate |-> <<>>, bit_depth |-> <<>>],
      [id |-> 5, album |-> <<"a">>, explicit |-> FALSE,
       sampling_rate |-> <<44>>, bit_depth |-> <<24>>],
      [id |-> 6, album |-> <<"b">>, explicit |-> FALSE,
       sampling_rate |-> <<44>>, bit_depth |-> <<16>>],
      [id |-> 7, album |-> <<"B", " ", "(", "x", ")">>, explicit |-> TRUE,
       sampling_rate |-> <<44>>, bit_depth |-> <<16>>],
      [id |-> 8, album |-> <<"(", "x", ")", " ", "a">>, explicit |-> FALSE,
       sampling_rate |-> <<44>>, bit_depth |-> <<16>>] }

\* lists of at most three different albums
AlbumLists ==
    { L \in {<<>>} \cup { <<a>> : a \in ArtistAlbums }
                   \cup { <<a, b>> : a \in ArtistAlbums, b \in ArtistAlbums }
                   \cup { <<a, b, c>> : a \in ArtistAlbums, b \in ArtistAlbums,
                                        c \in ArtistAlbums } :
        \A k, m \in DOMAIN L : L[k] = L[m] => k = m }

\* _filter_repeats(albums), and the filter applied to what it returned
Artist_filter_repeats ==
    /\ call = NoCall
    /\ \E albums \in AlbumLists :
          LET res == filter_repeats(albums) IN
          call' = [fn |-> "_filter_repeats", albums |-> albums, res |-> res,
                   again |-> IF res.raises THEN res ELSE filter_repeats(res.albums)]
    /\ UNCHANGED <<pipeline, env>>

(***************************************************************************)
(* RymMetadataService.enrich_genres.  rym_metadata is None (<<>>) or a     *)
(* dict with its 'genres' list (<<[genres |-> ...]>>).                     *)
(***************************************************************************)
Genres == {"rock", "pop", "jazz"}

\* AlbumMetadata.genre as from_qobuz / from_deezer / from_tidal build it:
\* a list without repetitions
ExistingGenres ==
    { g \in {<<>>} \cup { <<a>> : a \in Genres }
                   \cup { <<a, b>> : a \in Genres, b \in Genres } :
        \A k, m \in DOMAIN g : g[k] = g[m] => k = m }

\* what RYM returns: any list
RymGenres ==
    {<<>>} \cup { <<a>> : a \in Genres }
           \cup { <<a, b>> : a \in Genres, b \in Genres }
           \cup { <<a, b, c>> : a \in Genres, b \in Genres, c \in Genres }

\* list(dict.fromkeys(combined))
RECURSIVE fromkeys(_, _)
fromkeys(combined, seen) ==
    IF combined = <<>> THEN <<>>
    ELSE IF Head(combined) \in seen THEN fromkeys(Tail(combined), seen)
    ELSE <<Head(combined)>> \o fromkeys(Tail(combined), seen \cup {Head(combined)})

\* append mode without the removal of duplicates
enrich_genres_Concat(existing_genres, rym_metadata, genre_mode) ==
    IF rym_metadata = <<>> \/ rym_metadata[1].genres = <<>> THEN existing_genres
    ELSE IF genre_mode = "replace" THEN rym_metadata[1].genres
    ELSE IF genre_mode = "append" THEN existing_genres \o rym_metadata[1].genres
    ELSE rym_metadata[1].genres

enrich_genres(existing_genres, rym_metadata, genre_mode) ==
    IF rym_metadata = <<>> \/ rym_metadata[1].genres = <<>> THEN existing_genres
    ELSE IF genre_mode = "replace" THEN rym_metadata[1].genres
    ELSE IF genre_mode = "append"
         THEN fromkeys(existing_genres \o rym_metadata[1].genres, {})
    ELSE rym_metadata[1].genres    \* unknown genre_mode: as replace

RymService_enrich_genres ==
    /\ call = NoCall
    /\ \E existing \in ExistingGenres,
          rym_metadata \in {<<>>} \cup { <<[genres |-> r]>> : r \in RymGenres },
          genre_mode \in {"replace", "append", "merge"} :
          call' = [fn |-> "enrich_genres", existing |-> existing,
                   rym_metadata |-> rym_metadata, genre_mode |-> genre_mode,
                   res |-> enrich_genres(existing, rym_metadata, genre_mode)]
    /\ UNCHANGED <<pipeline, env>>

(***************************************************************************)
(* DeezerClient.get_downloadable(item_id, quality, is_retry).              *)
(*   tracks : what gw.get_track and get_track_url answer for each id:      *)
(*     sizes    - FILESIZE_MP3_128, FILESIZE_MP3_320, FILESIZE_FLAC,       *)
(*     fallback - FALLBACK.SNG_ID, <<>> when there is none,                *)
(*     url      - "ok", "WrongLicense" or "WrongGeolocation"               *)
(* The result carries the number of gw.get_track calls that were made.     *)
(***************************************************************************)
\* quality_map: qualities 0 (MP3_128), 1 (MP3_320), 2 (FLAC)
DeezerQualities == 0 .. 2

\* a file size that is absent or zero, and one that is not
FileSizes == {0, 1}

TrackIds == {"a", "b"}

NonStreamableError == [kind |-> "NonStreamableError", quality |-> 0, id |-> "-", calls |-> 1]

\* while size_map[quality] == 0 and quality > 0: quality -= 1
RECURSIVE lower_quality(_, _)
lower_quality(size_map, quality) ==
    IF size_map[quality + 1] = 0 /\ quality > 0
    THEN lower_quality(size_map, quality - 1)
    ELSE quality

RECURSIVE get_downloadable(_, _, _, _, _)
get_downloadable(tracks, lower_quality_if_not_available, item_id, quality, is_retry) ==
    LET track_info == tracks[item_id]
        size_map == track_info.sizes
        q == IF size_map[quality + 1] = 0
             THEN lower_quality(size_map, quality)
             ELSE quality
    IN  IF size_map[quality + 1] = 0 /\ ~lower_quality_if_not_available
        THEN NonStreamableError
        ELSE CASE track_info.url = "ok" ->
                    [kind |-> "downloadable", quality |-> q, id |-> item_id, calls |-> 1]
               [] track_info.url = "WrongLicense" -> NonStreamableError
               [] track_info.url = "WrongGeolocation" ->
                    IF ~is_retry /\ track_info.fallback # <<>>
                    THEN [get_downloadable(tracks, lower_quality_if_not_available,
                                           track_info.fallback[1], q, TRUE)
                            EXCEPT !.calls = @ + 1]
                    ELSE NonStreamableError

SizeMaps == [1 .. 3 -> FileSizes]

UrlOutcomes == {"ok", "WrongLicense", "WrongGeolocation"}

DeezerClient_get_downloadable ==
    /\ call = NoCall
    /\ \E sa \in SizeMaps, sb \in SizeMaps, ua \in UrlOutcomes, ub \in UrlOutcomes,
          fa \in {<<>>, <<"b">>}, fb \in {<<>>, <<"a">>},
          allow \in BOOLEAN, quality \in DeezerQualities :
          LET tracks == [t \in TrackIds |->
                            IF t = "a"
                            THEN [sizes |-> sa, fallback |-> fa, url |-> ua]
                            ELSE [sizes |-> sb, fallback |-> fb, url |-> ub]] IN
          call' = [fn |-> "get_downloadable", tracks |-> tracks,
                   lower_quality_if_not_available |-> allow,
                   item_id |-> "a", quality |-> quality,
                   res |-> get_downloadable(tracks, allow, "a", quality, FALSE)]
    /\ UNCHANGED <<pipeline, env>>

(***************************************************************************)
(* The AlbumInfo that the AlbumMetadata mappers build: quality, container  *)
(* and bit_depth (<<>> for None).  from_qobuz takes its quality from       *)
(* get_quality_id of metadata/util.py and is left out.                     *)
(***************************************************************************)
AlbumInfo(quality, container, bit_depth) ==
    [quality |-> quality, container |-> container, bit_depth |-> bit_depth]

from_deezer == AlbumInfo(2, "FLAC", <<16>>)

from_soundcloud == AlbumInfo(0, "MP3", <<>>)

\* quality_map of from_tidal and from_tidal_playlist_track_resp
TidalQualities == {"LOW", "HIGH", "LOSSLESS", "HI_RES"}

tidal_quality_map(audioQuality) ==
    CASE audioQuality = "LOW" -> 0
      [] audioQuality = "HIGH" -> 1
      [] audioQuality = "LOSSLESS" -> 2
      [] audioQuality = "HI_RES" -> 3

from_tidal(audioQuality) ==
    LET quality == tidal_quality_map(audioQuality) IN
    IF quality >= 2
    THEN IF quality = 3 THEN AlbumInfo(quality, "FLAC", <<24>>)
                        ELSE AlbumInfo(quality, "FLAC", <<16>>)
    ELSE AlbumInfo(quality, "MP4", <<>>)

from_tidal_playlist_track_resp(audioQuality) == from_tidal(audioQuality)

from_incomplete_deezer_track_resp == AlbumInfo(2, "MP4", <<>>)

Mappers == {"from_deezer", "from_soundcloud", "from_tidal",
            "from_tidal_playlist_track_resp", "from_incomplete_deezer_track_resp"}

album_info(mapper, audioQuality) ==
    CASE mapper = "from_deezer" -> from_deezer
      [] mapper = "from_soundcloud" -> from_soundcloud
      [] mapper = "from_tidal" -> from_tidal(audioQuality)
      [] mapper = "from_tidal_playlist_track_resp" ->
             from_tidal_playlist_track_resp(audioQuality)
      [] mapper = "from_incomplete_deezer_track_resp" ->
             from_incomplete_deezer_track_resp

AlbumMetadata_from_resp ==
    /\ call = NoCall
    /\ \E mapper \in Mappers, audioQuality \in TidalQualities :
          call' = [fn |-> "album_info", mapper |-> mapper,
                   audioQuality |-> audioQuality,
                   res |-> album_info(mapper, audioQuality)]
    /\ UNCHANGED <<pipeline, env>>

(***************************************************************************)
(* The Deezer API calls of DeezerClient.  _api_call runs the call in a     *)
(* thread (asyncio.to_thread) inside `async with self.concurrency_limiter`, *)
(* a semaphore of max_connections permits, and the rate limiter; search    *)
(* and get_downloadable call search_function(...) and get_track_url(...)   *)
(* in place, on the thread of the event loop.                              *)
(*   held : the _api_call calls that are in their thread                   *)
(*   loop : the call that the event loop's thread is in, "-" when none     *)
(***************************************************************************)
NoApiCalls == [fn |-> "deezer", held |-> 0, loop |-> "-"]

DeezerCalls == IF call = NoCall THEN NoApiCalls ELSE call

InDeezer == call = NoCall \/ call.fn = "deezer"

\* a coroutine enters _api_call: both limiters are acquired, the thread starts
DeezerClient_api_call ==
    /\ InDeezer
    /\ DeezerCalls.loop = "-"
    /\ DeezerCalls.held < cfg.max_connections
    /\ call' = [DeezerCalls EXCEPT !.held = @ + 1]
    /\ UNCHANGED <<pipeline, env>>

\* the thread of an _api_call is done: its coroutine leaves the two limiters
DeezerClient_api_return ==
    /\ InDeezer
    /\ DeezerCalls.loop = "-"
    /\ DeezerCalls.held > 0
    /\ call' = [DeezerCalls EXCEPT !.held = @ - 1]
    /\ UNCHANGED <<pipeline, env>>

\* response = search_function(query, limit=limit)
DeezerClient_search ==
    /\ InDeezer
    /\ DeezerCalls.loop = "-"
    /\ call' = [DeezerCalls EXCEPT !.loop = "search"]
    /\ UNCHANGED <<pipeline, env>>

\* url = self.client.get_track_url(token, format_str)
DeezerClient_get_track_url ==
    /\ InDeezer
    /\ DeezerCalls.loop = "-"
    /\ call' = [DeezerCalls EXCEPT !.loop = "get_track_url"]
    /\ UNCHANGED <<pipeline, env>>

\* the call made in place returns
DeezerClient_direct_return ==
    /\ InDeezer
    /\ DeezerCalls.loop # "-"
    /\ call' = [DeezerCalls EXCEPT !.loop = "-"]
    /\ UNCHANGED <<pipeline, env>>

(***************************************************************************)
(* PendingArtist.stream_albums with the repeats filter off: the albums of  *)
(* the artist one by one.                                                  *)
(*   table   : the Downloads table (track ids) that db.downloaded reads    *)
(*   outcome : per album id, what PendingAlbum.resolve does                *)
(*   include : per album id, the result of _should_include_album           *)
(* The result lists the ids given to PendingAlbum.resolve and the ids of   *)
(* the albums that are yielded.                                            *)
(***************************************************************************)
ArtistAlbumIds == {<<1>>, <<1, 2>>, <<2, 1>>}

ResolveOutcomes == {"album", "null", "raise"}

RECURSIVE stream_albums(_, _, _, _)
stream_albums(ids, table, outcome, include) ==
    IF ids = <<>> THEN [resolved |-> <<>>, yielded |-> <<>>]
    ELSE LET album_id == Head(ids)
             rest == stream_albums(Tail(ids), table, outcome, include) IN
         IF album_id \in table
         THEN rest
         ELSE IF outcome[album_id] = "album" /\ include[album_id]
              THEN [resolved |-> <<album_id>> \o rest.resolved,
                    yielded |-> <<album_id>> \o rest.yielded]
              ELSE [rest EXCEPT !.resolved = <<album_id>> \o @]

PendingArtist_stream_albums ==
    /\ call = NoCall
    /\ \E ids \in ArtistAlbumIds, table \in SUBSET {1, 2},
          outcome \in [{1, 2} -> ResolveOutcomes], include \in [{1, 2} -> BOOLEAN] :
          call' = [fn |-> "stream_albums", album_ids |-> ids, table |-> table,
                   outcome |-> outcome, include |-> include,
                   res |-> stream_albums(ids, table, outcome, include)]
    /\ UNCHANGED <<pipeline, env>>

NextCalls ==
    \/ Resolve_quality
    \/ UserFavorites_download
    \/ Artist_filter_repeats
    \/ RymService_enrich_genres
    \/ DeezerClient_get_downloadable
    \/ AlbumMetadata_from_resp
    \/ DeezerClient_api_call
    \/ DeezerClient_api_return
    \/ DeezerClient_search
    \/ DeezerClient_get_track_url
    \/ DeezerClient_direct_return
    \/ PendingArtist_stream_albums

InitCalls == Start(MaxFaults, {[mode |-> "urls", refs |-> <<Sgl1>>]})

SpecCalls == InitCalls /\ [][NextCalls]_vars

(***************************************************************************)
(* Vocabulary of the properties.                                           *)
(***************************************************************************)
InRun == mainPc \notin {"idle", "done"}

\* This step calls PendingTrack.resolve / PendingSingle.resolve for job j.
TrackResolveCalled(j) ==
    /\ InRun
    /\ j[1] <= NRefs
    /\ \/ jobs[j].pc \in {"queued", "start"} /\ jobs'[j].pc # jobs[j].pc
       \/ /\ urls[j[1]].kind = "track"
          /\ j[2] = 1
          /\ disc[j[1]].pc = "start"
          /\ disc'[j[1]].pc # "start"
          /\ disc'[j[1]].res # "login"

\* This step calls the resolve of reference i (the login has returned).
RefResolveCalled(i) ==
    /\ InRun
    /\ i <= NRefs
    /\ disc[i].pc = "start"
    /\ disc'[i].pc # "start"
    /\ disc'[i].res # "login"

\* This step calls the PendingAlbum.resolve of the album inside collection i.
InnerAlbumResolveCalled(i) ==
    /\ InRun
    /\ i <= NRefs
    /\ IsCollection(urls[i])
    /\ disc[i].pc = "item"
    /\ disc'[i].pc # "item"

HasRow(rel, id, kind, source) ==
    \E r \in rel : r.id = id /\ r.kind = kind /\ r.source = source

\* Job j is a DownloadTask or a track rip that has not terminated.
Active(j) == jobs[j].pc \notin Terminal \cup {"none"}

\* Job j belongs to album id of provider source.
OfAlbum(j, source, id) ==
    /\ j[1] <= NRefs
    /\ urls[j[1]].kind # "track"
    /\ urls[j[1]].source = source
    /\ RefAlbumId(urls[j[1]]) = id

(***************************************************************************)
(* C1.  When downloaded(t) is recorded at the moment PendingTrack.resolve  *)
(* or PendingSingle.resolve is called for t, the resolve returns null      *)
(* without get_metadata or get_downloadable, and so starts no transfer.    *)
(***************************************************************************)
C1_DownloadedTrackSkipped ==
    [][\A j \in JobIds :
          (TrackResolveCalled(j) /\ JobTrack(j) \in downloaded)
              => /\ jobs'[j].res = "skip"
                 /\ jobs'[j].pc \notin {"meta", "semwait", "resolved"} \cup Transferring]_vars

\* a resolve that met a downloaded track has returned null
C1_Witness ==
    \E j \in JobIds : jobs[j].res = "skip" /\ jobs[j].pc \in {"null", "sleep", "dropped"}

(***************************************************************************)
(* C2.  PendingAlbum.resolve returns null without get_metadata exactly     *)
(* when release(id, "album", source) is recorded; a row for the same id    *)
(* under another source or another kind does not cause the skip.           *)
(***************************************************************************)
C2_AlbumSkipIsSourceAndKindSpecific ==
    [][\A i \in RefIdx :
          /\ (RefResolveCalled(i) /\ urls[i].kind = "album")
                => IF HasRow(releases, urls[i].id, "album", urls[i].source)
                   THEN disc'[i] = [pc |-> "done", res |-> "skip"]
                   ELSE disc'[i].pc = "meta"
          /\ InnerAlbumResolveCalled(i)
                => IF HasRow(releases, RefAlbumId(urls[i]), "album", urls[i].source)
                   THEN disc'[i].pc = "done"
                   ELSE disc'[i].pc = "ameta"]_vars

\* one album reference was skipped, another is in get_metadata although a row
\* with its id is recorded under another source
C2_Witness ==
    \E h, i \in 1 .. NRefs :
        /\ urls[h].kind = "album" /\ disc[h].res = "skip"
        /\ urls[i].kind = "album" /\ disc[i].pc = "meta"
        /\ \E r \in releases : r.id = urls[i].id /\ r.source # urls[i].source

(***************************************************************************)
(* C3.  PendingArtist.resolve and PendingLabel.resolve return null without *)
(* get_metadata when release(id, "artist" / "label", source) is recorded.  *)
(***************************************************************************)
C3_CollectionSkipped ==
    [][\A i \in RefIdx :
          (/\ RefResolveCalled(i)
           /\ IsCollection(urls[i])
           /\ HasRow(releases, urls[i].id, urls[i].kind, urls[i].source))
              => disc'[i] = [pc |-> "done", res |-> "skip"]]_vars

(***************************************************************************)
(* C4.  A second run over the same album URL, after a run through          *)
(* stream_process_urls that downloaded every track of the album, makes no  *)
(* metadata call, leaves the ledger unchanged and starts no transfer.      *)
(***************************************************************************)
C4_SecondRunIsNoOp ==
    [][(prevOk /\ InRun /\ mode = "urls" /\ urls = <<AlbQ>>)
          => /\ ledger' = ledger
             /\ \A i \in RefIdx : disc'[i].pc # "meta"
             /\ \A j \in JobIds : jobs'[j].pc \notin {"meta"} \cup Transferring]_vars

(***************************************************************************)
(* C5.  In the queue pipeline, once every DownloadTask of an album has     *)
(* terminated, release(albumId, "album", source) with the track count is   *)
(* recorded in the same run iff every track of the album is downloaded.    *)
(***************************************************************************)
C5_ReleaseWrittenIffComplete ==
    mainPc = "done" =>
        \A i \in 1 .. NRefs :
            (urls[i].kind = "album" /\ disc[i].res = "album")
                => (AllTracksDownloaded(Tracklist(urls[i].source, urls[i].id))
                      <=> \E r \in releases :
                              /\ r.id = urls[i].id /\ r.kind = "album"
                              /\ r.source = urls[i].source
                              /\ r.n = Len(Tracklist(urls[i].source, urls[i].id)))

(***************************************************************************)
(* C6.  Whenever release(r, "album", s) is recorded, every track of the    *)
(* tracklist the album was resolved with is recorded as downloaded.        *)
(***************************************************************************)
C6_AlbumReleaseImpliesTracks ==
    \A r \in releases :
        r.kind = "album" =>
            \A k \in 1 .. Len(Tracklist(r.source, r.id)) :
                Tracklist(r.source, r.id)[k] \in downloaded

\* a release row of an album with more than one track is recorded
C6_Witness ==
    \E r \in releases : r.kind = "album" /\ Len(Tracklist(r.source, r.id)) > 1

(***************************************************************************)
(* C7.  The album-complete ledger write of an album never happens while a  *)
(* track rip or DownloadTask of that album is queued, sleeping for a retry *)
(* or in progress.                                                         *)
(***************************************************************************)
C7_ReleaseWriteAfterTracks ==
    [][\A i \in RefIdx :
          (/\ i <= NRefs
           /\ ~HasRow(releases, RefAlbumId(urls[i]), "album", urls[i].source)
           /\ HasRow(releases', RefAlbumId(urls[i]), "album", urls[i].source))
              => \A j \in JobIds :
                    OfAlbum(j, urls[i].source, RefAlbumId(urls[i])) => ~Active(j)]_vars

(***************************************************************************)
(* C8.  A download task that raises every time it is processed is          *)
(* processed at most 3 times in total.                                     *)
(***************************************************************************)
C8_AtMostThreeAttempts ==
    \A j \in JobIds : jobs[j].attempts <= 3

(***************************************************************************)
(* C8, amended.  A download task that raises every time it is processed is *)
(* processed at most max_retries + 1 = 4 times: the first attempt and      *)
(* max_retries re-queues.  Before each re-queue retry_count is incremented *)
(* and the worker sleeps retry_count * 2 seconds; the task that fails with *)
(* retry_count = max_retries is discarded and never re-queued.             *)
(***************************************************************************)
C8_AtMostFourAttempts ==
    /\ [](\A j \in JobIds :
            /\ jobs[j].attempts <= max_retries + 1
            /\ jobs[j].retry_count <= max_retries
            /\ jobs[j].pc = "sleep" => /\ jobs[j].retry_count = jobs[j].attempts
                                       /\ jobs[j].sleep = jobs[j].retry_count * 2
            /\ jobs[j].pc = "dropped" => jobs[j].attempts = max_retries + 1)
    /\ [][\A j \in JobIds :
            /\ (jobs'[j].pc = "sleep" /\ jobs[j].pc # "sleep")
                  => jobs'[j].retry_count = jobs[j].retry_count + 1
            /\ (jobs[j].pc = "sleep" /\ jobs'[j].pc # "sleep")
                  => /\ jobs'[j].pc = "queued"
                     /\ jobs'[j].retry_count = jobs[j].retry_count
                     /\ queue' = Append(queue, j)
            /\ (jobs[j].pc = "dropped" /\ InRun)
                  => (jobs'[j] = jobs[j] /\ \A k \in 1 .. Len(queue') : queue'[k] # j)]_vars

\* a task was processed four times and then discarded
C8_Witness ==
    \E j \in JobIds : jobs[j].pc = "dropped" /\ jobs[j].attempts = max_retries + 1

(***************************************************************************)
(* C9.  When a download task is discarded after exhausting its retries, a  *)
(* failure row for its track is written to the ledger.                     *)
(***************************************************************************)
C9_DiscardWritesFailure ==
    [][\A j \in JobIds :
          (jobs[j].pc # "dropped" /\ jobs'[j].pc = "dropped")
              => <<JobSource(j), "track", JobTrack(j)>> \in failed']_vars

(***************************************************************************)
(* C10.  The number of in-flight byte transfers (first transfer, inline    *)
(* retry, re-download after a validation failure) never exceeds            *)
(* max_connections.                                                        *)
(***************************************************************************)
C10_TransfersBounded ==
    InFlight <= cfg.max_connections

(***************************************************************************)
(* C11.  Quality resolution of PendingTrack.resolve and                    *)
(* PendingSingle.resolve, for requested and advertised qualities in 0..3   *)
(* and both values of lower_quality_if_not_available: if Q_max >= Q_req    *)
(* get_downloadable is called with Q_req; else, if the fallback is         *)
(* allowed, with Q_max; else failed(source, "track", id) is recorded,      *)
(* resolve returns null and get_downloadable is not called.  The quality   *)
(* chosen is min(Q_req, Q_max).                                            *)
(***************************************************************************)
C11_QualityResolution ==
    call.fn \in {"PendingTrack", "PendingSingle"} =>
        /\ call.q_max >= call.q_req
              => /\ call.get_downloadable = <<call.q_req>>
                 /\ call.res = "track" /\ call.failed = {}
        /\ (call.q_max < call.q_req /\ call.fallback)
              => /\ call.get_downloadable = <<call.q_max>>
                 /\ call.res = "track" /\ call.failed = {}
        /\ (call.q_max < call.q_req /\ ~call.fallback)
              => /\ call.get_downloadable = <<>>
                 /\ call.res = "null"
                 /\ call.failed = {<<"qobuz", "track", 1>>}
        /\ \A k \in DOMAIN call.get_downloadable :
              /\ call.get_downloadable[k] <= call.q_req
              /\ call.get_downloadable[k] <= call.q_max
              /\ call.get_downloadable[k] \in {call.q_req, call.q_max}

\* a resolve that fell back to a lower quality, and one that refused
C11_Witness ==
    /\ call.fn = "PendingSingle"
    /\ call.q_max < call.q_req
    /\ \/ call.fallback /\ call.get_downloadable = <<call.q_max>>
       \/ ~call.fallback /\ call.res = "null"

C13_CompleteAlbumRecovered ==
    [][\A i \in RefIdx :
          LET src == urls[i].source
              aid == RefAlbumId(urls[i])
              tl == Tracklist(src, aid) IN
          (/\ InRun /\ i <= NRefs
           /\ urls[i].kind \in {"album", "label", "artist"}
           /\ disc[i].pc = (IF urls[i].kind = "album" THEN "meta" ELSE "ameta")
           /\ disc'[i].pc # disc[i].pc
           /\ faults' = faults
           /\ Len(tl) > 0
           /\ \A k \in 1 .. Len(tl) : tl[k] \in downloaded)
              => /\ [id |-> aid, kind |-> "album", source |-> src, n |-> Len(tl)]
                        \in releases'
                 /\ disc'[i].pc = "done"
                 /\ urls[i].kind = "album" => disc'[i].res = "complete"
                 /\ \A j \in JobIds : j[1] = i => jobs'[j].pc = "none"
                 /\ downloaded' = downloaded /\ failed' = failed]_vars

\* an album reference was resolved to null by the recovery, and its row is there
C13_Witness ==
    \E i \in 1 .. NRefs :
        /\ urls[i].kind = "album"
        /\ disc[i] = [pc |-> "done", res |-> "complete"]
        /\ HasRow(releases, urls[i].id, "album", urls[i].source)

(***************************************************************************)
(* C14.  For favorites of tracks with download_full_album_for_liked_tracks *)
(* enabled, the liked tracks are mapped to their album ids, the album ids  *)
(* are de-duplicated and one PendingAlbum per distinct album is emitted.   *)
(***************************************************************************)
C14_LikedTracksBecomeAlbums ==
    (/\ call.fn = "UserFavorites.download"
     /\ call.media_type = "tracks"
     /\ call.full_album)
        => /\ \A k \in DOMAIN call.pending : call.pending[k].kind = "PendingAlbum"
           /\ {call.pending[k].id : k \in DOMAIN call.pending}
                 = {call.items[k].album : k \in DOMAIN call.items}
           /\ \A k, m \in DOMAIN call.pending :
                 call.pending[k].id = call.pending[m].id => k = m

(***************************************************************************)
(* C15.  Enrichment of an album's AlbumMetadata runs exactly once per      *)
(* album, before any of its tracks is enqueued, and never again after the  *)
(* first track has been enqueued: once the tracks of an album reference    *)
(* are in the queue its metadata has been enriched once, and stays so.     *)
(***************************************************************************)
C15_EnrichedOnceBeforeEnqueue ==
    \A i \in 1 .. NRefs :
        (/\ InRun
         /\ urls[i].kind = "album"
         /\ disc[i] = [pc |-> "done", res |-> "album"])
            => enriched[i] = 1

(***************************************************************************)
(* C16.  Within each group of albums sharing a normalized title the        *)
(* repeat filter keeps the album that comes first under the lexicographic  *)
(* ordering (explicit, then sampling rate, then bit depth, each            *)
(* descending): no album of the group is above the one kept.               *)
(***************************************************************************)
LexAbove(a, b) ==
    \/ explicit_key(a) > explicit_key(b)
    \/ /\ explicit_key(a) = explicit_key(b)
       /\ \/ sampling_rate_key(a) > sampling_rate_key(b)
          \/ /\ sampling_rate_key(a) = sampling_rate_key(b)
             /\ bit_depth_key(a) > bit_depth_key(b)

C16_KeepsLexicographicFirst ==
    (call.fn = "_filter_repeats" /\ ~call.res.raises)
        => \A k \in DOMAIN call.res.albums : \A h \in DOMAIN call.albums :
              essence(call.albums[h].album) = essence(call.res.albums[k].album)
                  => ~LexAbove(call.albums[h], call.res.albums[k])

(***************************************************************************)
(* C17.  For every list of albums L the repeat filter returns exactly one  *)
(* album per distinct normalized title, the result is a sub-list of L, and *)
(* filtering the result again returns it unchanged.                        *)
(***************************************************************************)
IsSubList(s, L) ==
    \E f \in [DOMAIN s -> DOMAIN L] :
        /\ \A k \in DOMAIN s : L[f[k]] = s[k]
        /\ \A k, m \in DOMAIN s : k < m => f[k] < f[m]

C17_IdempotentSubList ==
    call.fn = "_filter_repeats"
        => /\ ~call.res.raises
           /\ call.again = call.res
           /\ IsSubList(call.res.albums, call.albums)
           /\ \A h \in DOMAIN call.albums :
                 Cardinality({k \in DOMAIN call.res.albums :
                                 essence(call.res.albums[k].album)
                                    = essence(call.albums[h].album)}) = 1

(***************************************************************************)
(* C18.  enrich_genres: in append mode the result is the original genres   *)
(* in their original order followed by the RYM genres not already present, *)
(* each once, in the order of their first occurrence; in replace mode the  *)
(* result is the RYM list if and only if RYM returned at least one genre,  *)
(* and the original list otherwise.                                        *)
(***************************************************************************)
RymReturned == IF call.rym_metadata = <<>> THEN <<>> ELSE call.rym_metadata[1].genres

FirstAt(g, seq) == CHOOSE k \in DOMAIN seq : seq[k] = g /\ \A h \in 1 .. (k - 1) : seq[h] # g

C19_DownloadedIsLastStep ==
    [][/\ downloaded' # downloaded
             => \E j \in JobIds :
                   /\ jobs[j].pc = "tag"
                   /\ jobs'[j].pc = "ok"
                   /\ downloaded' = downloaded \cup {JobTrack(j)}
                   /\ cfg.validate_audio => jobs[j].valid
       /\ \A j \in JobIds :
             (jobs[j].pc = "tag" /\ jobs'[j].pc \notin {"tag", "ok"})
                => downloaded' = downloaded]_vars

\* a track was validated, tagged and recorded by its rip
C19_Witness ==
    /\ InRun
    /\ cfg.validate_audio
    /\ \E j \in JobIds :
          /\ j[1] <= NRefs
          /\ jobs[j].pc = "ok"
          /\ JobTrack(j) \in downloaded

(***************************************************************************)
(* C20.  downloaded(trackId) is set only for a track whose byte transfer   *)
(* completed successfully in that attempt: an attempt whose initial        *)
(* transfer and inline retry both failed does not write it.                *)
(***************************************************************************)
C20_DownloadedOnlyAfterTransfer ==
    [][\A j \in JobIds :
          (/\ j[1] <= NRefs
           /\ jobs[j].pc = "tag"
           /\ jobs'[j].pc = "ok"
           /\ downloaded' # downloaded)
             => jobs[j].xfer = "ok"]_vars

(***************************************************************************)
(* C21: when the first transfer of a queued track and its inline retry     *)
(* both fail, the step that ends the retry hands the task to the worker's  *)
(* retry loop (back-off, or drop once the retries are used up), and it     *)
(* writes a failure row only when the task is dropped.                     *)
(***************************************************************************)
C21_PersistentErrorReachesWorker ==
    [][\A j \in JobIds :
          (/\ jobs[j].pc = "retry"
           /\ jobs[j].where = "worker"
           /\ jobs'[j] # jobs[j]
           /\ faults' # faults)
          => /\ jobs'[j].pc \in {"sleep", "dropped"}
             /\ (jobs'[j].pc = "sleep" => failed' = failed)]_vars

(***************************************************************************)
(* C22: when the validation of a track's file fails, one more transfer and *)
(* one more validation follow inline if retry_on_validation_failure is     *)
(* set, and a failure row is written only if it is not set; a track whose  *)
(* last validation failed is never marked downloaded.                      *)
(***************************************************************************)
C22_ValidationFailure ==
    [][\A j \in JobIds :
          /\ (/\ jobs[j].pc = "validate"
              /\ jobs'[j] # jobs[j]
              /\ faults' # faults)
             => IF cfg.retry_on_validation_failure
                THEN jobs'[j].pc = "vtransfer" /\ failed' = failed
                ELSE /\ jobs'[j].pc \notin Transferring
                     /\ <<JobSource(j), "track", JobTrack(j)>> \in failed'
          /\ (/\ jobs[j].pc = "tag"
              /\ jobs'[j] # jobs[j]
              /\ downloaded' # downloaded
              /\ cfg.validate_audio)
             => jobs[j].valid]_vars

(***************************************************************************)
(* C23: a track resolve that ends with null after its metadata fetch has   *)
(* written failed(source, "track", id); an album resolve that ends with    *)
(* null after its metadata fetch has written no failure row.               *)
(***************************************************************************)
C23_NotStreamableRecorded ==
    [][/\ \A j \in JobIds :
             (jobs[j].pc = "meta" /\ jobs'[j].pc # "meta" /\ jobs'[j].res = "null")
             => <<JobSource(j), "track", JobTrack(j)>> \in failed'
       /\ \A i \in RefIdx :
             (/\ i <= NRefs
              /\ urls[i].kind = "album"
              /\ disc[i].pc = "meta"
              /\ disc'[i].res = "null")
             => failed' = failed]_vars

(***************************************************************************)
(* C24: when the resolve of a queued track returns null (the track is in   *)
(* the ledger, is not streamable, or its quality is refused), the worker   *)
(* finishes the task in that step: no back-off sleep and no re-queue.      *)
(***************************************************************************)
C24_NullIsNotRetried ==
    [][\A j \in JobIds :
          (/\ jobs'[j] # jobs[j]
           /\ jobs[j].where \in {"queue", "worker"}
           /\ jobs[j].pc \in {"queued", "meta"}
           /\ jobs'[j].res \in {"skip", "null"})
          => jobs'[j].pc \in Terminal]_vars

\* every reference has been resolved and processed, every task that was
\* created has reached its outcome, and every worker has left its loop
AllSettled ==
    /\ \A i \in 1 .. NRefs : disc[i].pc = "done"
    /\ \A j \in JobIds : jobs[j].pc \in Terminal \cup {"none"}
    /\ \A w \in Workers : worker[w].pc = "exited"

C26_LoginErrorPropagates ==
    \A i \in 1 .. NRefs : disc[i].res = "login" => mainPc # "done"

(***************************************************************************)
(* C27: Album.download() calls resolve (and rip) on none of the album's    *)
(* pending tracks: no track is ever processed outside the download queue   *)
(* by the album that holds it.                                             *)
(***************************************************************************)
C27_AlbumDownloadIsNoOp ==
    \A j \in JobIds : jobs[j].where # "direct"

(***************************************************************************)
(* C28: every resolve is total: whatever the provider answers, the resolve *)
(* of a track returns a Track or null and never raises to its caller.      *)
(***************************************************************************)
C28_ResolveNeverRaises ==
    \A j \in JobIds : jobs[j].res # "raise"

(***************************************************************************)
(* C29: the step in which a track of one provider is recorded as           *)
(* downloaded does not change whether a track with the same id of another  *)
(* provider, whose task is still waiting in the same run, is treated as    *)
(* downloaded by its resolve.                                              *)
(***************************************************************************)
C29_DownloadedIsPerSource ==
    [][\A j1, j2 \in JobIds :
          (/\ Active(j1) /\ Active(j2)
           /\ JobSource(j1) # JobSource(j2)
           /\ JobTrack(j1) = JobTrack(j2)
           /\ jobs[j1].pc = "tag"
           /\ jobs'[j1].pc = "ok"
           /\ jobs'[j2] = jobs[j2])
          => (TrackSkip(JobTrack(j2)))' = TrackSkip(JobTrack(j2))]_vars

(***************************************************************************)
(* C30: get_downloadable(id, q) for q in 0..2 ends after at most one retry *)
(* with the fallback id.  When it returns a downloadable for id itself:    *)
(* the quality is q if the size advertised for q is not zero; otherwise    *)
(* (fallback enabled) it is the highest quality below q whose advertised   *)
(* size is not zero.  When the size for q is zero and fallback is disabled *)
(* it raises NonStreamableError.                                           *)
(***************************************************************************)
C30_DeezerDownloadable ==
    call.fn = "get_downloadable" =>
        LET size_map == call.tracks[call.item_id].sizes
            q == call.quality
            r == call.res IN
        /\ r.calls <= 2
        /\ (size_map[q + 1] = 0 /\ ~call.lower_quality_if_not_available)
              => r.kind = "NonStreamableError"
        /\ (r.kind = "downloadable" /\ r.id = call.item_id)
              => IF size_map[q + 1] # 0
                 THEN r.quality = q
                 ELSE /\ r.quality < q
                      /\ size_map[r.quality + 1] # 0
                      /\ \A k \in DeezerQualities :
                            (r.quality < k /\ k < q) => size_map[k + 1] = 0

(***************************************************************************)
(* C31: the AlbumInfo of every mapper has container FLAC and bit depth 24  *)
(* at quality 3, container FLAC and bit depth 16 at quality 2, and         *)
(* container MP3 or MP4 below quality 2.                                   *)
(***************************************************************************)
C31_AlbumInfoConsistent ==
    call.fn = "album_info" =>
        LET info == call.res IN
        /\ info.quality = 3 => info.container = "FLAC" /\ info.bit_depth = <<24>>
        /\ info.quality = 2 => info.container = "FLAC" /\ info.bit_depth = <<16>>
        /\ info.quality < 2 => info.container \in {"MP3", "MP4"}

\* the Deezer API calls that are being executed
ApiCallsInFlight == call.held + (IF call.loop = "-" THEN 0 ELSE 1)

(***************************************************************************)
(* C32: every Deezer API call is executed while its coroutine holds the    *)
(* concurrency semaphore, so at most max_connections calls are in flight.  *)
(***************************************************************************)
C32_DeezerCallsLimited ==
    call.fn = "deezer" =>
        /\ call.loop = "-"
        /\ ApiCallsInFlight <= cfg.max_connections

TimesQueued(j) == Cardinality({i \in 1 .. Len(queue) : queue[i] = j})

\* the workers that hold the task j
Holders(j) == {w \in Workers : worker[w].pc = "busy" /\ worker[w].task = j}

\* the task j is in exactly one place
OnePlace(j) ==
    /\ jobs[j].where = "queue" =>
         TimesQueued(j) = 1 /\ Holders(j) = {} /\ jobs[j].pc = "queued"
    /\ jobs[j].where = "worker" =>
         TimesQueued(j) = 0 /\ Cardinality(Holders(j)) = 1
    /\ jobs[j].where \notin {"queue", "worker"} =>
         TimesQueued(j) = 0 /\ Holders(j) = {}

(***************************************************************************)
(* C34: at every moment a DownloadTask is in the queue exactly once, or    *)
(* held by exactly one worker, or over; within a run a task that completed *)
(* is not put into the queue again.                                        *)
(***************************************************************************)
C34_TaskInOnePlace ==
    /\ [](\A j \in JobIds : OnePlace(j))
    /\ [][InRun => \A j \in JobIds :
                     jobs[j].pc = "ok" => TimesQueued(j)' = 0]_vars

\* two workers hold two tasks for the same track while a third task waits in
\* the queue after a re-queue
C34_Witness ==
    /\ \E j \in JobIds : jobs[j].where = "queue" /\ jobs[j].retry_count > 0
    /\ \E j1, j2 \in JobIds :
          /\ j1 # j2
          /\ JobTrack(j1) = JobTrack(j2)
          /\ jobs[j1].where = "worker"
          /\ jobs[j2].where = "worker"

(***************************************************************************)
(* C35: in no reachable state of the ledger is a track recorded both as    *)
(* downloaded and as failed.                                               *)
(***************************************************************************)
C35_DownloadedXorFailed ==
    \A f \in failed : f[2] = "track" => f[3] \notin downloaded

(***************************************************************************)
(* C36: download_queue.join() returns only when every enqueued task has    *)
(* completed or has been dropped after its last retry: at the step in      *)
(* which join returns no task is being processed, sleeps in its backoff,   *)
(* or waits in the queue.                                                  *)
(***************************************************************************)
C36_JoinWaitsForEveryTask ==
    [][(mainPc = "join" /\ mainPc' = "stopping") =>
          /\ \A j \in JobIds : jobs[j].where \notin {"queue", "worker"}
          /\ \A j \in JobIds : jobs[j].pc \in Terminal \cup {"none"}
          /\ queue = <<>>
          /\ \A w \in Workers : worker[w].pc = "idle"]_vars

\* join has returned in a run in which a task was re-queued, failed every
\* time and was dropped, while another one of the same run was ripped
C36_Witness ==
    /\ mainPc = "stopping"
    /\ \E j \in JobIds : jobs[j].pc = "dropped" /\ jobs[j].attempts = max_retries + 1
    /\ \E j \in JobIds : jobs[j].pc = "ok"

(***************************************************************************)
(* C37: after stop_workers has returned, the download queue holds no       *)
(* leftover sentinel and its count of unfinished tasks is zero.            *)
(***************************************************************************)
C37_QueueCleanAfterStop ==
    mainPc = "done" => queue = <<>> /\ unfinished = 0

(***************************************************************************)
(* C38: an invocation of stream_process_urls / stream_process_pending      *)
(* terminates: discovery finishes, every task reaches a terminal outcome,  *)
(* join returns, and when the call returns every worker has exited, the    *)
(* queue is empty and the shutdown event is cleared.                       *)
(***************************************************************************)
C38_RunTerminates ==
    InRun ~> /\ mainPc = "done"
             /\ ~shutdown
             /\ queue = <<>>
             /\ \A w \in Workers : worker[w].pc = "exited"
             /\ \A i \in 1 .. NRefs : disc[i].pc = "done"
             /\ \A j \in JobIds : ~Active(j)

\* two DownloadTasks for the same track of the same source
SameTrack(j1, j2) ==
    /\ j1 # j2
    /\ jobs[j1].where = "worker"
    /\ jobs[j2].where = "worker"
    /\ JobSource(j1) = JobSource(j2)
    /\ JobTrack(j1) = JobTrack(j2)

(***************************************************************************)
(* C39: when two DownloadTasks of a run carry the same track id, two       *)
(* workers never both pass the downloaded(t) check and transfer the track. *)
(***************************************************************************)
C39_OneTransferPerTrack ==
    \A j1, j2 \in JobIds :
        SameTrack(j1, j2) =>
            ~(jobs[j1].pc \in Transferring /\ jobs[j2].pc \in Transferring)

\* the ids, in their order, whose album resolves and passes the per-item filters
RECURSIVE AlbumsWhere(_, _, _)
AlbumsWhere(ids, outcome, include) ==
    IF ids = <<>> THEN <<>>
    ELSE IF outcome[Head(ids)] = "album" /\ include[Head(ids)]
         THEN <<Head(ids)>> \o AlbumsWhere(Tail(ids), outcome, include)
         ELSE AlbumsWhere(Tail(ids), outcome, include)

(***************************************************************************)
(* C40: with the repeats filter off, stream_albums gives every album id of *)
(* the artist to PendingAlbum.resolve and yields exactly the albums that   *)
(* resolve to an album and pass the per-item filters, whatever rows the    *)
(* track-level Downloads table holds.                                      *)
(***************************************************************************)
C40_EveryAlbumResolved ==
    call.fn = "stream_albums" =>
        /\ call.res.resolved = call.album_ids
        /\ call.res.yielded = AlbumsWhere(call.album_ids, call.outcome, call.include)

====
